---- MODULE Spec2Model ----
(***************************************************************************)
(* Model of the Lumina fraud-scoring service: the in-memory store          *)
(* (internal/store), the scoring engine (internal/scoring) and the HTTP    *)
(* handlers that drive them (internal/api).                                *)
(*                                                                         *)
(* Time is counted in minutes.  Amounts are whole currency units; the      *)
(* float64 ratio amount/avg >= k is computed as amount*n >= k*total.       *)
(* RiskFactor.Description, Transaction.Explanation and ProcessedAt are     *)
(* text renderings of the modelled fields and are left out.                *)
(***************************************************************************)
EXTENDS Integers, Sequences, FiniteSets, TLC

VARIABLES
    transactions,   \* Store.transactions : id -> Transaction
    txByEmail,      \* Store.txByEmail    : email  -> sequence of ids
    txByIP,         \* Store.txByIP       : ip     -> sequence of ids
    txByDevice,     \* Store.txByDevice   : device -> sequence of ids
    txByBIN,        \* Store.txByBIN      : bin    -> sequence of ids
    cardsByIP,      \* Store.cardsByIP    : ip     -> set of BINs
    blocklist,      \* Store.blocklist    : id -> BlocklistEntry
    webhooks,       \* Store.webhooks     : id -> WebhookConfig
    now,            \* the wall clock read by time.Now()
    ret,            \* the last completed call and what it returned
    mu,             \* Store.mu : [writer, readers]
    procs,          \* the goroutines running store operations concurrently: where
                    \* each one is in its call, its arguments and what it returned
    successes,      \* log of the SaveTransaction calls that returned nil: <<goroutine, tx>>
    deliveries      \* delivery goroutines started by NotifyAsync:
                    \* <<webhook id, tx id>> -> how many

storeVars == <<transactions, txByEmail, txByIP, txByDevice, txByBIN, cardsByIP,
               blocklist, webhooks>>
txVars == <<transactions, txByEmail, txByIP, txByDevice, txByBIN, cardsByIP>>
concVars == <<mu, procs, successes>>
vars == <<transactions, txByEmail, txByIP, txByDevice, txByBIN, cardsByIP,
          blocklist, webhooks, now, ret, mu, procs, successes, deliveries>>

----------------------------------------------------------------------------
(* Bounds of the model *)

\* number of distinct transaction identifiers
NumIDs == 2
\* number of clock ticks after the start instant
MaxTicks == 2
\* number of goroutines calling SaveTransaction concurrently
NumWriters == 2
MaxBatch == 2
MaxBurst == 8
MaxCards == 5
\* number of transactions submitted to the scoring pipeline
MaxHistory == 5

----------------------------------------------------------------------------
(* Domain constants and time *)

Minute == 1
Hour == 60 * Minute
Day == 24 * Hour

ThresholdApprove == 30
ThresholdReview == 70

EntityEmail == "email"
EntityIP == "ip"
EntityBIN == "bin"
EntityDevice == "device"
ListBlock == "block"
ListAllow == "allow"

RiskLow == "low"
RiskMedium == "medium"
RiskHigh == "high"
ActionApprove == "approve"
ActionReview == "review"
ActionDecline == "decline"

ErrDuplicateTransaction == "transaction already exists"
NoError == "nil"
NoTx == [TransactionID |-> 0]
NoEntry == [ID |-> "nil"]
NoExpiry == -1

----------------------------------------------------------------------------
(* Input domains *)

TxIDs == 1..NumIDs
Emails == {"a@a.com", "b@b.com"}
IPs == {"1.1.1.1", "2.2.2.2"}
Devices == {"dev1", "dev2"}
BINs == {"453211", "400000", "472297"}

\* 2026-02-25 03:30 UTC, in minutes since 2026-02-25 00:00 UTC plus 30 days
StartOfDay == 30 * Day
T0 == StartOfDay + 3 * Hour + 30 * Minute

----------------------------------------------------------------------------
(* The store: internal/store *)

\* New(): every map empty
EmptyStore ==
    /\ transactions = << >>
    /\ txByEmail = [e \in Emails |-> << >>]
    /\ txByIP = [i \in IPs |-> << >>]
    /\ txByDevice = [d \in Devices |-> << >>]
    /\ txByBIN = [b \in BINs |-> << >>]
    /\ cardsByIP = [i \in IPs |-> {}]
    /\ blocklist = << >>
    /\ webhooks = << >>

\* m[k] = v on a Go map
MapPut(m, k, v) == [x \in DOMAIN m \cup {k} |-> IF x = k THEN v ELSE m[x]]

\* delete(m, k) on a Go map
MapDelete(m, k) == [x \in DOMAIN m \ {k} |-> m[x]]

\* mutant: the slice is replaced by a one-element slice instead of appended to
AppendIndex_Replace(idx, key, id) == [idx EXCEPT ![key] = <<id>>]

\* idx[key] = append(idx[key], id)
AppendIndex(idx, key, id) == [idx EXCEPT ![key] = Append(@, id)]

\* mutant: the inner set is made anew on every save
AddCard_Fresh(cards, ip, bin) == [cards EXCEPT ![ip] = {bin}]

\* cardsByIP[ip][bin] = true, creating the inner set when it is nil
AddCard(cards, ip, bin) == [cards EXCEPT ![ip] = @ \cup {bin}]

\* the duplicate check of SaveTransaction
Exists(id) == id \in DOMAIN transactions

\* SaveTransaction's return value
SaveResult(tx) == IF Exists(tx.TransactionID) THEN ErrDuplicateTransaction ELSE NoError

\* mutant: the duplicate check does not stop the writes
SaveEffect_Overwrite(tx) ==
    /\ transactions' = MapPut(transactions, tx.TransactionID, tx)
    /\ txByEmail' = AppendIndex(txByEmail, tx.UserEmail, tx.TransactionID)
    /\ txByIP' = AppendIndex(txByIP, tx.IPAddress, tx.TransactionID)
    /\ txByDevice' = AppendIndex(txByDevice, tx.DeviceFingerprint, tx.TransactionID)
    /\ txByBIN' = AppendIndex(txByBIN, tx.CardBIN, tx.TransactionID)
    /\ cardsByIP' = AddCard(cardsByIP, tx.IPAddress, tx.CardBIN)

\* SaveTransaction's effect on the maps, the whole critical section
SaveEffect(tx) ==
    IF Exists(tx.TransactionID)
    THEN UNCHANGED txVars
    ELSE /\ transactions' = MapPut(transactions, tx.TransactionID, tx)
         /\ txByEmail' = AppendIndex(txByEmail, tx.UserEmail, tx.TransactionID)
         /\ txByIP' = AppendIndex(txByIP, tx.IPAddress, tx.TransactionID)
         /\ txByDevice' = AppendIndex(txByDevice, tx.DeviceFingerprint, tx.TransactionID)
         /\ txByBIN' = AppendIndex(txByBIN, tx.CardBIN, tx.TransactionID)
         /\ cardsByIP' = AddCard(cardsByIP, tx.IPAddress, tx.CardBIN)

\* mutant: a transaction stamped exactly `since` is dropped
filterByTime_After(ids, since) ==
    LET f[i \in 0..Len(ids)] ==
            IF i = 0 THEN << >>
            ELSE IF Exists(ids[i]) /\ transactions[ids[i]].Timestamp > since
                 THEN Append(f[i - 1], transactions[ids[i]])
                 ELSE f[i - 1]
    IN f[Len(ids)]

\* filterByTime: the ids resolved to transactions, keeping those at or after since
filterByTime(ids, since) ==
    LET f[i \in 0..Len(ids)] ==
            IF i = 0 THEN << >>
            ELSE IF Exists(ids[i]) /\ ~(transactions[ids[i]].Timestamp < since)
                 THEN Append(f[i - 1], transactions[ids[i]])
                 ELSE f[i - 1]
    IN f[Len(ids)]

GetTransactionsByEmail(email, since) == filterByTime(txByEmail[email], since)
GetTransactionsByIP(ip, since) == filterByTime(txByIP[ip], since)
GetTransactionsByDevice(device, since) == filterByTime(txByDevice[device], since)
GetTransactionsByBIN(bin, since) == filterByTime(txByBIN[bin], since)
GetUniqueCardsByIP(ip) == Cardinality(cardsByIP[ip])

\* GetAllTransactions: the range over the map yields the records in any order
GetAllTransactions(since) ==
    {transactions[id] : id \in {i \in DOMAIN transactions :
                                    ~(transactions[i].Timestamp < since)}}

\* GetTransaction: (tx, ok)
GetTransaction(id) ==
    IF Exists(id) THEN [tx |-> transactions[id], ok |-> TRUE]
    ELSE [tx |-> NoTx, ok |-> FALSE]

----------------------------------------------------------------------------
(* The store's blocklist and webhook operations *)

\* mutant: CheckBlocklist never skips an entry
ExpiredForCheck_Never(entry, t) == FALSE

\* entry.ExpiresAt != nil && entry.ExpiresAt.Before(now): CheckBlocklist skips it
ExpiredForCheck(entry, t) == entry.ExpiresAt # NoExpiry /\ entry.ExpiresAt < t

\* entry.ExpiresAt == nil || entry.ExpiresAt.After(now): ListBlocklistEntries keeps it
ActiveForList(entry, t) == entry.ExpiresAt = NoExpiry \/ entry.ExpiresAt > t

\* CheckBlocklist: the entries the range over the map can return for (type, value);
\* the map is ranged over in an unspecified order and the first match is returned
CheckBlocklistHits(entityType, value) ==
    {blocklist[id] : id \in {i \in DOMAIN blocklist :
                                /\ blocklist[i].Type = entityType
                                /\ blocklist[i].Value = value
                                /\ ~ExpiredForCheck(blocklist[i], now)}}

\* CheckBlocklist: every (entry, ok) the call can return
CheckBlocklist(entityType, value) ==
    IF CheckBlocklistHits(entityType, value) = {}
    THEN {[entry |-> NoEntry, hit |-> FALSE]}
    ELSE {[entry |-> e, hit |-> TRUE] : e \in CheckBlocklistHits(entityType, value)}

\* ListBlocklistEntries: the entries returned (in some order)
ListBlocklistEntries == {blocklist[id] : id \in {i \in DOMAIN blocklist :
                                                    ActiveForList(blocklist[i], now)}}

\* ListActiveWebhooks
ListActiveWebhooks == {webhooks[id] : id \in {i \in DOMAIN webhooks : webhooks[i].Active}}

----------------------------------------------------------------------------
(* The scoring engine: internal/scoring *)

factor(name, delta) == [Name |-> name, ScoreDelta |-> delta]

clamp(v, min, max) == IF v < min THEN min ELSE IF v > max THEN max ELSE v

\* strings.ToUpper on the country codes of the input domain
ToUpper(c) ==
    CASE c = "us" -> "US"
      [] c = "ru" -> "RU"
      [] c = "br" -> "BR"
      [] OTHER -> c

isLATAM(country) ==
    country \in {"BR", "MX", "AR", "CO", "CL", "PE", "VE", "EC", "BO", "PY", "UY", "CR", "PA"}

isHighRiskCountry(country) ==
    country \in {"RU", "NG", "UA", "CN", "VN", "PK", "KP", "RO", "GH", "TZ"}

highRiskBINs == {"400000", "411111", "420000", "490000", "510000", "520000", "552000",
                 "601100"}
isHighRiskBIN(bin) == bin \in highRiskBINs

prepaidBINs == {"472297", "483317", "491528", "523274", "535350", "544107"}
isPrepaidBIN(bin) == bin \in prepaidBINs

\* mutant: the four lookups run in the order device, BIN, IP, email
checkLists_DeviceFirst(req) ==
    LET checks == << [typ |-> EntityDevice, val |-> req.DeviceFingerprint],
                     [typ |-> EntityBIN, val |-> req.CardBIN],
                     [typ |-> EntityIP, val |-> req.IPAddress],
                     [typ |-> EntityEmail, val |-> req.UserEmail] >>
        hitting == {k \in 1..Len(checks) : CheckBlocklistHits(checks[k].typ, checks[k].val) # {}}
    IN IF hitting = {}
       THEN {[entry |-> NoEntry, hit |-> FALSE]}
       ELSE LET first == CHOOSE k \in hitting : \A j \in hitting : k <= j
            IN CheckBlocklist(checks[first].typ, checks[first].val)

\* checkLists: email, IP, BIN, device in this order; the first CheckBlocklist that
\* hits is returned
checkLists(req) ==
    LET checks == << [typ |-> EntityEmail, val |-> req.UserEmail],
                     [typ |-> EntityIP, val |-> req.IPAddress],
                     [typ |-> EntityBIN, val |-> req.CardBIN],
                     [typ |-> EntityDevice, val |-> req.DeviceFingerprint] >>
        hitting == {k \in 1..Len(checks) : CheckBlocklistHits(checks[k].typ, checks[k].val) # {}}
    IN IF hitting = {}
       THEN {[entry |-> NoEntry, hit |-> FALSE]}
       ELSE LET first == CHOOSE k \in hitting : \A j \in hitting : k <= j
            IN CheckBlocklist(checks[first].typ, checks[first].val)

\* buildContext: the five windowed lookups and the distinct-BIN count
buildContext(req) ==
    LET t == req.Timestamp IN
    [req |-> req,
     emailLast24h |-> GetTransactionsByEmail(req.UserEmail, t - 24 * Hour),
     emailLast10m |-> GetTransactionsByEmail(req.UserEmail, t - 10 * Minute),
     ipLast1h |-> GetTransactionsByIP(req.IPAddress, t - 1 * Hour),
     deviceLast30m |-> GetTransactionsByDevice(req.DeviceFingerprint, t - 30 * Minute),
     binLast1h |-> GetTransactionsByBIN(req.CardBIN, t - 1 * Hour),
     uniqueCardsByIP |-> GetUniqueCardsByIP(req.IPAddress)]

ruleVelocityEmail(ctx) ==
    (IF Len(ctx.emailLast24h) >= 2
     THEN << factor("email_velocity_24h", clamp(5 * Len(ctx.emailLast24h), 0, 25)) >>
     ELSE << >>)
    \o
    (IF Len(ctx.emailLast10m) >= 2
     THEN << factor("email_velocity_10min", clamp(10 * Len(ctx.emailLast10m), 0, 30)) >>
     ELSE << >>)

\* mutant: the IP rule fires from two transactions on
ruleVelocityIP_At2(ctx) ==
    IF Len(ctx.ipLast1h) >= 2
    THEN << factor("ip_velocity_1h", clamp(8 * Len(ctx.ipLast1h), 0, 30)) >>
    ELSE << >>

ruleVelocityIP(ctx) ==
    IF Len(ctx.ipLast1h) >= 3
    THEN << factor("ip_velocity_1h", clamp(8 * Len(ctx.ipLast1h), 0, 30)) >>
    ELSE << >>

ruleVelocityDevice(ctx) ==
    IF Len(ctx.deviceLast30m) >= 2
    THEN << factor("device_velocity_30min", clamp(12 * Len(ctx.deviceLast30m), 0, 30)) >>
    ELSE << >>

\* mutant: the card-cycling delta is not capped
ruleVelocityCardCycling_Uncapped(ctx) ==
    LET emails == {ctx.binLast1h[k].UserEmail : k \in 1..Len(ctx.binLast1h)} IN
    (IF ctx.uniqueCardsByIP >= 3
     THEN << factor("card_cycling_ip", 8 * ctx.uniqueCardsByIP) >>
     ELSE << >>)
    \o
    (IF Len(ctx.binLast1h) >= 5 /\ Cardinality(emails) > 1
     THEN << factor("bin_velocity_multi_user", clamp(8 * Cardinality(emails), 0, 25)) >>
     ELSE << >>)

ruleVelocityCardCycling(ctx) ==
    LET emails == {ctx.binLast1h[k].UserEmail : k \in 1..Len(ctx.binLast1h)} IN
    (IF ctx.uniqueCardsByIP >= 3
     THEN << factor("card_cycling_ip", clamp(8 * ctx.uniqueCardsByIP, 0, 30)) >>
     ELSE << >>)
    \o
    (IF Len(ctx.binLast1h) >= 5 /\ Cardinality(emails) > 1
     THEN << factor("bin_velocity_multi_user", clamp(8 * Cardinality(emails), 0, 25)) >>
     ELSE << >>)

ruleGeography(ctx) ==
    LET ip == ToUpper(ctx.req.IPCountry)
        card == ToUpper(ctx.req.CardCountry)
        merchant == ToUpper(ctx.req.MerchantCountry)
    IN
    (IF ip # "" /\ card # "" /\ ip # card
     THEN << factor("geo_ip_card_mismatch", 25) >> ELSE << >>)
    \o
    (IF ip # "" /\ merchant # "" /\ ip # merchant /\ ~isLATAM(ip)
     THEN << factor("geo_ip_merchant_mismatch", 10) >> ELSE << >>)
    \o
    (IF isHighRiskCountry(ip)
     THEN << factor("geo_high_risk_country", 15) >> ELSE << >>)
    \o
    (IF ip # "" /\ card # "" /\ merchant # "" /\ ip # card /\ card # merchant /\ ip # merchant
     THEN << factor("geo_three_way_mismatch", 10) >> ELSE << >>)

ruleAccountAge(ctx) ==
    LET age == ctx.req.Timestamp - ctx.req.AccountCreatedAt IN
    IF age < Hour THEN << factor("account_age_critical", 25) >>
    ELSE IF age < 24 * Hour THEN << factor("account_age_new", 15) >>
    ELSE IF age < 7 * 24 * Hour THEN << factor("account_age_week", 5) >>
    ELSE << >>

\* the sum of the amounts of a sequence of transactions
SumAmounts(history) ==
    LET f[i \in 0..Len(history)] == IF i = 0 THEN 0 ELSE f[i - 1] + history[i].Amount
    IN f[Len(history)]

\* mutant: a first purchase of exactly 50 already counts as large
rulePurchaseBehaviour_From50(ctx) ==
    LET history == ctx.emailLast24h
        n == Len(history)
        total == SumAmounts(history)
        amount == ctx.req.Amount
    IN
    IF n = 0
    THEN << factor("first_transaction", IF amount >= 50 THEN 15 ELSE 5) >>
    ELSE IF total > 0
         THEN IF amount * n >= 10 * total THEN << factor("amount_anomaly_extreme", 30) >>
              ELSE IF amount * n >= 5 * total THEN << factor("amount_anomaly_high", 20) >>
              ELSE IF amount * n >= 3 * total THEN << factor("amount_anomaly_medium", 10) >>
              ELSE << >>
         ELSE << >>

rulePurchaseBehaviour(ctx) ==
    LET history == ctx.emailLast24h
        n == Len(history)
        total == SumAmounts(history)
        amount == ctx.req.Amount
    IN
    IF n = 0
    THEN << factor("first_transaction", IF amount > 50 THEN 15 ELSE 5) >>
    ELSE IF total > 0
         THEN IF amount * n >= 10 * total THEN << factor("amount_anomaly_extreme", 30) >>
              ELSE IF amount * n >= 5 * total THEN << factor("amount_anomaly_high", 20) >>
              ELSE IF amount * n >= 3 * total THEN << factor("amount_anomaly_medium", 10) >>
              ELSE << >>
         ELSE << >>

ruleCardBIN(ctx) ==
    IF isHighRiskBIN(ctx.req.CardBIN) THEN << factor("bin_high_risk", 30) >>
    ELSE IF isPrepaidBIN(ctx.req.CardBIN) THEN << factor("bin_prepaid", 15) >>
    ELSE << >>

ruleTiming(ctx) ==
    LET hour == (ctx.req.Timestamp \div Hour) % 24 IN
    IF hour >= 2 /\ hour < 6 THEN << factor("off_hours", 10) >> ELSE << >>

\* the sum of the deltas of a sequence of factors
SumDeltas(factors) ==
    LET f[i \in 0..Len(factors)] == IF i = 0 THEN 0 ELSE f[i - 1] + factors[i].ScoreDelta
    IN f[Len(factors)]

\* the factors of the nine rules over a context, in the order Score runs them
RulesOn(ctx) ==
    ruleVelocityEmail(ctx) \o ruleVelocityIP(ctx) \o ruleVelocityDevice(ctx)
    \o ruleVelocityCardCycling(ctx) \o ruleGeography(ctx) \o ruleAccountAge(ctx)
    \o rulePurchaseBehaviour(ctx) \o ruleCardBIN(ctx) \o ruleTiming(ctx)

\* the factors of the nine rules for a request, its context built in one go
RuleFactors(req) == RulesOn(buildContext(req))

\* mutant: the total is returned as it is
RulePhase_Unclamped(req) ==
    LET factors == RuleFactors(req) IN
    [score |-> SumDeltas(factors), factors |-> factors]

\* Score's rule phase: the factors, and their total brought into [0, 100]
RulePhase(req) ==
    LET factors == RuleFactors(req)
        total == SumDeltas(factors)
    IN [score |-> IF total < 0 THEN 0 ELSE IF total > 100 THEN 100 ELSE total,
        factors |-> factors]

\* the same rule phase over a context already built
RulePhaseOn(ctx) ==
    LET factors == RulesOn(ctx)
        total == SumDeltas(factors)
    IN [score |-> IF total < 0 THEN 0 ELSE IF total > 100 THEN 100 ELSE total,
        factors |-> factors]

\* mutant: every hit that is not a block entry lets the request through
ScoreWith_AllowByDefault(req, c) ==
    IF c.hit /\ c.entry.ListType = ListBlock
    THEN [score |-> 100, factors |-> << factor("blocklist_match", 100) >>]
    ELSE IF c.hit
    THEN [score |-> 0, factors |-> << factor("allowlist_match", 0) >>]
    ELSE RulePhase(req)

\* Score once checkLists has returned c: the switch on the entry's ListType,
\* falling through to the rule phase when neither case matches
ScoreWith(req, c) ==
    IF c.hit /\ c.entry.ListType = ListBlock
    THEN [score |-> 100, factors |-> << factor("blocklist_match", 100) >>]
    ELSE IF c.hit /\ c.entry.ListType = ListAllow
    THEN [score |-> 0, factors |-> << factor("allowlist_match", 0) >>]
    ELSE RulePhase(req)

\* Score: every (score, factors) the call can return
Score(req) == {ScoreWith(req, c) : c \in checkLists(req)}

\* mutant: the thresholds themselves fall in the higher band
Recommend_Strict(score) ==
    IF score < ThresholdApprove THEN [recommendation |-> ActionApprove, riskLevel |-> RiskLow]
    ELSE IF score < ThresholdReview THEN [recommendation |-> ActionReview, riskLevel |-> RiskMedium]
    ELSE [recommendation |-> ActionDecline, riskLevel |-> RiskHigh]

\* Recommend: (recommendation, riskLevel)
Recommend(score) ==
    IF score <= ThresholdApprove THEN [recommendation |-> ActionApprove, riskLevel |-> RiskLow]
    ELSE IF score <= ThresholdReview THEN [recommendation |-> ActionReview, riskLevel |-> RiskMedium]
    ELSE [recommendation |-> ActionDecline, riskLevel |-> RiskHigh]

----------------------------------------------------------------------------
(* The HTTP handlers: internal/api, and the notifier: internal/webhook *)

\* time.Time{}: the zero instant, far before every instant of the model
ZeroTime == 0 - 1000 * 365 * Day

\* validateTransactionRequest: "" when the request is valid, else the error
validateTransactionRequest(req) ==
    IF req.TransactionID = 0 THEN "transaction_id is required"
    ELSE IF req.Amount <= 0 THEN "amount must be greater than 0"
    ELSE IF req.Currency = "" THEN "currency is required"
    ELSE IF req.UserEmail = "" THEN "user_email is required"
    ELSE IF req.IPAddress = "" THEN "ip_address is required"
    ELSE IF req.CardBIN = "" THEN "card_bin is required"
    ELSE IF req.DeviceFingerprint = "" THEN "device_fingerprint is required"
    ELSE IF req.Timestamp = ZeroTime THEN "timestamp is required"
    ELSE IF req.AccountCreatedAt = ZeroTime THEN "account_created_at is required"
    ELSE ""

\* the domain.Transaction the handlers build from a request and its score
ScoredTx(req, res) ==
    [TransactionID |-> req.TransactionID, Timestamp |-> req.Timestamp,
     Amount |-> req.Amount, Currency |-> req.Currency, UserEmail |-> req.UserEmail,
     IPAddress |-> req.IPAddress, IPCountry |-> req.IPCountry, CardBIN |-> req.CardBIN,
     CardCountry |-> req.CardCountry, DeviceFingerprint |-> req.DeviceFingerprint,
     AccountCreatedAt |-> req.AccountCreatedAt, MerchantCountry |-> req.MerchantCountry,
     RiskScore |-> res.score, RiskLevel |-> Recommend(res.score).riskLevel,
     Recommendation |-> Recommend(res.score).recommendation, Factors |-> res.factors]

\* mutant: every active webhook is notified, whatever its threshold
NotifyAsync_AnyScore(tx) ==
    LET started == {<<wh.ID, tx.TransactionID>> : wh \in ListActiveWebhooks}
    IN deliveries' = [d \in DOMAIN deliveries \cup started |->
                         (IF d \in DOMAIN deliveries THEN deliveries[d] ELSE 0)
                         + (IF d \in started THEN 1 ELSE 0)]

\* NotifyAsync: one delivery goroutine per active webhook whose threshold is met
NotifyAsync(tx) ==
    LET started == {<<wh.ID, tx.TransactionID>> :
                       wh \in {w \in ListActiveWebhooks : tx.RiskScore >= w.Threshold}}
    IN deliveries' = [d \in DOMAIN deliveries \cup started |->
                         (IF d \in DOMAIN deliveries THEN deliveries[d] ELSE 0)
                         + (IF d \in started THEN 1 ELSE 0)]

\* Handler.SubmitTransaction: decode, validate, score, recommend, save, notify;
\* decoded is whether the body was valid JSON, req what it decoded to
SubmitTransaction(decoded, req) ==
    IF ~decoded \/ validateTransactionRequest(req) # ""
    THEN /\ ret' = [op |-> "SubmitTransaction", status |-> 400]
         /\ UNCHANGED <<storeVars, now, mu, procs, successes, deliveries>>
    ELSE \E res \in Score(req) :
           LET tx == ScoredTx(req, res) IN
             /\ SaveEffect(tx)
             /\ UNCHANGED <<blocklist, webhooks, now, mu, procs, successes>>
             /\ IF SaveResult(tx) = ErrDuplicateTransaction
                THEN /\ ret' = [op |-> "SubmitTransaction", status |-> 409]
                     /\ UNCHANGED deliveries
                ELSE /\ ret' = [op |-> "SubmitTransaction", status |-> 201]
                     /\ NotifyAsync(tx)

----------------------------------------------------------------------------
(* Store-level specification: callers of the store's transaction API *)

\* the identifiers a caller uses: one already stored, or the next unused one
\* (identifiers are opaque keys, so new ones are taken in order)
UsableIDs == DOMAIN transactions \cup {n \in TxIDs : n = Cardinality(DOMAIN transactions) + 1}

\* the instants used as `since` bounds by the store's callers
StoreSince == {T0, T0 + 5 * Minute}

\* newTx of the store tests: a transaction with the indexed fields and a timestamp
newTx(id, email, ip, device, bin, ts) ==
    [TransactionID |-> id, Timestamp |-> ts, Amount |-> 50, Currency |-> "BRL",
     UserEmail |-> email, IPAddress |-> ip, IPCountry |-> "", CardBIN |-> bin,
     CardCountry |-> "", DeviceFingerprint |-> device, AccountCreatedAt |-> 0,
     MerchantCountry |-> "", RiskScore |-> 0, RiskLevel |-> "", Recommendation |-> "",
     Factors |-> << >>]

\* each customer pays from their own device
DeviceOf(email) == IF email = "a@a.com" THEN "dev1" ELSE "dev2"

StoreTxs ==
    {newTx(id, e, i, DeviceOf(e), b, T0) : id \in UsableIDs, e \in Emails, i \in IPs,
                                           b \in {"453211", "400000"}}

InitCommon ==
    /\ EmptyStore
    /\ now = T0
    /\ ret = [op |-> "New"]
    /\ mu = [writer |-> 0, readers |-> {}]
    /\ procs = [p \in 1..(NumWriters + 1) |-> [pc |-> "idle"]]
    /\ successes = << >>
    /\ deliveries = << >>

Init == InitCommon

SaveTransaction(tx) ==
    /\ SaveEffect(tx)
    /\ ret' = [op |-> "SaveTransaction", tx |-> tx, err |-> SaveResult(tx)]
    /\ UNCHANGED <<blocklist, webhooks, now, mu, procs, successes, deliveries>>

CallGetTransaction(id) ==
    /\ ret' = [op |-> "GetTransaction", id |-> id, val |-> GetTransaction(id)]
    /\ UNCHANGED <<storeVars, now, mu, procs, successes, deliveries>>

CallGetByEntity(type, value, since) ==
    /\ ret' = [op |-> "GetTransactionsBy", type |-> type, value |-> value, since |-> since,
               val |-> CASE type = EntityEmail -> GetTransactionsByEmail(value, since)
                         [] type = EntityIP -> GetTransactionsByIP(value, since)
                         [] type = EntityDevice -> GetTransactionsByDevice(value, since)
                         [] type = EntityBIN -> GetTransactionsByBIN(value, since)]
    /\ UNCHANGED <<storeVars, now, mu, procs, successes, deliveries>>

CallGetUniqueCardsByIP(ip) ==
    /\ ret' = [op |-> "GetUniqueCardsByIP", ip |-> ip, val |-> GetUniqueCardsByIP(ip)]
    /\ UNCHANGED <<storeVars, now, mu, procs, successes, deliveries>>

CallGetAllTransactions(since) ==
    /\ ret' = [op |-> "GetAllTransactions", since |-> since, val |-> GetAllTransactions(since)]
    /\ UNCHANGED <<storeVars, now, mu, procs, successes, deliveries>>

EntityValues(type) ==
    CASE type = EntityEmail -> Emails
      [] type = EntityIP -> IPs
      [] type = EntityDevice -> Devices
      [] type = EntityBIN -> BINs

EntityTypes == {EntityEmail, EntityIP, EntityBIN, EntityDevice}

Next ==
    \/ \E tx \in StoreTxs : SaveTransaction(tx)
    \/ \E id \in TxIDs : CallGetTransaction(id)
    \/ \E type \in EntityTypes : \E value \in EntityValues(type) :
          \E since \in StoreSince : CallGetByEntity(type, value, since)
    \/ \E ip \in IPs : CallGetUniqueCardsByIP(ip)
    \/ \E since \in StoreSince : CallGetAllTransactions(since)

Spec == Init /\ [][Next]_vars

----------------------------------------------------------------------------
(* Claims about the store *)

\* the number of positions of sequence s that hold x
Occurrences(s, x) == Cardinality({i \in 1..Len(s) : s[i] = x})

\* C1: a SaveTransaction call whose identifier is already stored returns
\* ErrDuplicateTransaction and changes nothing in the store: the primary map, the
\* four secondary indexes and cardsByIP (and the blocklist and webhooks) are the
\* same before and after the call, whatever the second record carries.
C1_DuplicateSaveChangesNothing ==
    [][(ret'.op = "SaveTransaction" /\ Exists(ret'.tx.TransactionID))
        => (ret'.err = ErrDuplicateTransaction /\ UNCHANGED storeVars)]_vars

\* a duplicate save was refused whose record differs from the stored one in
\* email, IP, device and BIN
C1_Witness ==
    /\ ret.op = "SaveTransaction"
    /\ ret.err = ErrDuplicateTransaction
    /\ Exists(ret.tx.TransactionID)
    /\ LET old == transactions[ret.tx.TransactionID] IN
          /\ old.UserEmail # ret.tx.UserEmail
          /\ old.IPAddress # ret.tx.IPAddress
          /\ old.DeviceFingerprint # ret.tx.DeviceFingerprint
          /\ old.CardBIN # ret.tx.CardBIN

\* C3: every stored transaction's identifier occurs exactly once in each of the
\* four indexes under its own key and under no other key, its BIN is in
\* cardsByIP[its IP], and every identifier in an index is a key of transactions.
C3_IndexesMatchPrimary ==
    /\ \A id \in DOMAIN transactions :
          LET tx == transactions[id] IN
            /\ tx.TransactionID = id
            /\ \A e \in Emails :
                  Occurrences(txByEmail[e], id) = IF e = tx.UserEmail THEN 1 ELSE 0
            /\ \A i \in IPs :
                  Occurrences(txByIP[i], id) = IF i = tx.IPAddress THEN 1 ELSE 0
            /\ \A d \in Devices :
                  Occurrences(txByDevice[d], id) = IF d = tx.DeviceFingerprint THEN 1 ELSE 0
            /\ \A b \in BINs :
                  Occurrences(txByBIN[b], id) = IF b = tx.CardBIN THEN 1 ELSE 0
            /\ tx.CardBIN \in cardsByIP[tx.IPAddress]
    /\ \A e \in Emails : \A k \in 1..Len(txByEmail[e]) : Exists(txByEmail[e][k])
    /\ \A i \in IPs : \A k \in 1..Len(txByIP[i]) : Exists(txByIP[i][k])
    /\ \A d \in Devices : \A k \in 1..Len(txByDevice[d]) : Exists(txByDevice[d][k])
    /\ \A b \in BINs : \A k \in 1..Len(txByBIN[b]) : Exists(txByBIN[b][k])

\* two transactions are stored that share an IP and differ in email, device and
\* BIN, and a duplicate save has just been refused
C3_Witness ==
    /\ Cardinality(DOMAIN transactions) >= 2
    /\ transactions[1].IPAddress = transactions[2].IPAddress
    /\ transactions[1].UserEmail # transactions[2].UserEmail
    /\ transactions[1].DeviceFingerprint # transactions[2].DeviceFingerprint
    /\ transactions[1].CardBIN # transactions[2].CardBIN
    /\ ret.op = "SaveTransaction"
    /\ ret.err = ErrDuplicateTransaction

----------------------------------------------------------------------------
(* Concurrent specification: goroutines calling the store, one map access per
   step, under Store.mu (sync.RWMutex) *)

Writers == 1..NumWriters
Reader == NumWriters + 1
ConcIDs == {1, 2}

\* the record goroutine p saves under identifier id: goroutines differ in
\* email, IP, device and BIN
ConcTx(p, id) ==
    IF p % 2 = 1 THEN newTx(id, "a@a.com", "1.1.1.1", "dev1", "453211", T0)
    ELSE newTx(id, "b@b.com", "2.2.2.2", "dev2", "400000", T0)

ReadKinds == {"GetTransaction", "GetTransactionsByEmail", "GetTransactionsByIP",
              "GetTransactionsByDevice", "GetTransactionsByBIN", "GetUniqueCardsByIP",
              "GetAllTransactions"}
ByEntityKinds == {"GetTransactionsByEmail", "GetTransactionsByIP",
                  "GetTransactionsByDevice", "GetTransactionsByBIN"}

\* mutant: Lock does not wait for the other holders
CanLock_NoWait == TRUE

\* s.mu.Lock(): granted when no goroutine holds the lock in either mode
CanLock == mu.writer = 0 /\ mu.readers = {}

\* mutant: RLock does not wait for the writer
CanRLock_NoWait == TRUE

\* s.mu.RLock(): granted when no goroutine holds the lock exclusively
CanRLock == mu.writer = 0

Idle(p) == procs[p].pc \in {"idle", "done"}

SetProc(p, r) == procs' = [procs EXCEPT ![p] = r]
Goto(p, pc) == procs' = [procs EXCEPT ![p].pc = pc]

\* a goroutine calls SaveTransaction(tx), once, as the goroutines of the
\* concurrency test do; overlap notes that another goroutine's call with the same
\* identifier was in progress at that moment
SaveCall(p, tx) ==
    /\ procs[p].pc = "idle"
    /\ SetProc(p, [pc |-> "lock", op |-> "SaveTransaction", tx |-> tx,
                   overlap |-> \E q \in Writers \ {p} :
                                  /\ procs[q].pc \notin {"idle", "done"}
                                  /\ procs[q].tx.TransactionID = tx.TransactionID])
    /\ UNCHANGED <<storeVars, now, ret, mu, successes, deliveries>>

\* s.mu.Lock()
SaveLock(p) ==
    /\ procs[p].pc = "lock"
    /\ CanLock
    /\ mu' = [mu EXCEPT !.writer = p]
    /\ Goto(p, "check")
    /\ UNCHANGED <<storeVars, now, ret, successes, deliveries>>

\* mutant: the duplicate return leaves the lock held
SaveCheck_KeepsLock(p) ==
    /\ procs[p].pc = "check"
    /\ IF Exists(procs[p].tx.TransactionID)
       THEN /\ SetProc(p, [procs[p] EXCEPT !.pc = "done"] @@ [err |-> ErrDuplicateTransaction])
            /\ UNCHANGED mu
       ELSE /\ Goto(p, "primary")
            /\ UNCHANGED mu
    /\ UNCHANGED <<storeVars, now, ret, successes, deliveries>>

\* if _, exists := s.transactions[id]; exists { return ErrDuplicateTransaction },
\* with the deferred Unlock
SaveCheck(p) ==
    /\ procs[p].pc = "check"
    /\ IF Exists(procs[p].tx.TransactionID)
       THEN /\ SetProc(p, [procs[p] EXCEPT !.pc = "done"] @@ [err |-> ErrDuplicateTransaction])
            /\ mu' = [mu EXCEPT !.writer = IF @ = p THEN 0 ELSE @]
       ELSE /\ Goto(p, "primary")
            /\ UNCHANGED mu
    /\ UNCHANGED <<storeVars, now, ret, successes, deliveries>>

\* s.transactions[tx.TransactionID] = tx
SavePrimary(p) ==
    /\ procs[p].pc = "primary"
    /\ transactions' = MapPut(transactions, procs[p].tx.TransactionID, procs[p].tx)
    /\ Goto(p, "email")
    /\ UNCHANGED <<txByEmail, txByIP, txByDevice, txByBIN, cardsByIP, blocklist,
                   webhooks, now, ret, mu, successes, deliveries>>

\* s.txByEmail[tx.UserEmail] = append(...)
SaveEmail(p) ==
    /\ procs[p].pc = "email"
    /\ txByEmail' = AppendIndex(txByEmail, procs[p].tx.UserEmail, procs[p].tx.TransactionID)
    /\ Goto(p, "ip")
    /\ UNCHANGED <<transactions, txByIP, txByDevice, txByBIN, cardsByIP, blocklist,
                   webhooks, now, ret, mu, successes, deliveries>>

\* s.txByIP[tx.IPAddress] = append(...)
SaveIP(p) ==
    /\ procs[p].pc = "ip"
    /\ txByIP' = AppendIndex(txByIP, procs[p].tx.IPAddress, procs[p].tx.TransactionID)
    /\ Goto(p, "device")
    /\ UNCHANGED <<transactions, txByEmail, txByDevice, txByBIN, cardsByIP, blocklist,
                   webhooks, now, ret, mu, successes, deliveries>>

\* s.txByDevice[tx.DeviceFingerprint] = append(...)
SaveDevice(p) ==
    /\ procs[p].pc = "device"
    /\ txByDevice' = AppendIndex(txByDevice, procs[p].tx.DeviceFingerprint,
                                 procs[p].tx.TransactionID)
    /\ Goto(p, "bin")
    /\ UNCHANGED <<transactions, txByEmail, txByIP, txByBIN, cardsByIP, blocklist,
                   webhooks, now, ret, mu, successes, deliveries>>

\* s.txByBIN[tx.CardBIN] = append(...)
SaveBIN(p) ==
    /\ procs[p].pc = "bin"
    /\ txByBIN' = AppendIndex(txByBIN, procs[p].tx.CardBIN, procs[p].tx.TransactionID)
    /\ Goto(p, "cards")
    /\ UNCHANGED <<transactions, txByEmail, txByIP, txByDevice, cardsByIP, blocklist,
                   webhooks, now, ret, mu, successes, deliveries>>

\* s.cardsByIP[tx.IPAddress][tx.CardBIN] = true
SaveCards(p) ==
    /\ procs[p].pc = "cards"
    /\ cardsByIP' = AddCard(cardsByIP, procs[p].tx.IPAddress, procs[p].tx.CardBIN)
    /\ Goto(p, "return")
    /\ UNCHANGED <<transactions, txByEmail, txByIP, txByDevice, txByBIN, blocklist,
                   webhooks, now, ret, mu, successes, deliveries>>

\* return nil, with the deferred Unlock
SaveReturn(p) ==
    /\ procs[p].pc = "return"
    /\ SetProc(p, [procs[p] EXCEPT !.pc = "done"] @@ [err |-> NoError])
    /\ mu' = [mu EXCEPT !.writer = IF @ = p THEN 0 ELSE @]
    /\ successes' = Append(successes, <<p, procs[p].tx>>)
    /\ UNCHANGED <<storeVars, now, ret, deliveries>>

\* a goroutine calls one of the read operations
ReadCall(p, kind, arg) ==
    /\ Idle(p)
    /\ SetProc(p, [pc |-> "rlock", op |-> kind, arg |-> arg])
    /\ UNCHANGED <<storeVars, now, ret, mu, successes, deliveries>>

\* s.mu.RLock()
ReadLock(p) ==
    /\ procs[p].pc = "rlock"
    /\ CanRLock
    /\ mu' = [mu EXCEPT !.readers = @ \cup {p}]
    /\ IF procs[p].op \in ByEntityKinds
       THEN SetProc(p, [procs[p] EXCEPT !.pc = "index"])
       ELSE SetProc(p, [procs[p] EXCEPT !.pc = "body"])
    /\ UNCHANGED <<storeVars, now, ret, successes, deliveries>>

\* the argument of filterByTime is evaluated: the index slice of the entity
ReadIndex(p) ==
    /\ procs[p].pc = "index"
    /\ LET ids == CASE procs[p].op = "GetTransactionsByEmail" -> txByEmail[procs[p].arg]
                    [] procs[p].op = "GetTransactionsByIP" -> txByIP[procs[p].arg]
                    [] procs[p].op = "GetTransactionsByDevice" -> txByDevice[procs[p].arg]
                    [] procs[p].op = "GetTransactionsByBIN" -> txByBIN[procs[p].arg]
       IN SetProc(p, [pc |-> "body", op |-> procs[p].op, arg |-> procs[p].arg, ids |-> ids])
    /\ UNCHANGED <<storeVars, now, ret, mu, successes, deliveries>>

\* whether transaction id is under its own key in the four indexes and cardsByIP
Indexed(id) ==
    LET tx == transactions[id] IN
      /\ Occurrences(txByEmail[tx.UserEmail], id) = 1
      /\ Occurrences(txByIP[tx.IPAddress], id) = 1
      /\ Occurrences(txByDevice[tx.DeviceFingerprint], id) = 1
      /\ Occurrences(txByBIN[tx.CardBIN], id) = 1
      /\ tx.CardBIN \in cardsByIP[tx.IPAddress]

\* the body of the read operation: what the call returns (val), and whether what
\* it saw of the map it read disagrees with the other maps at that instant (torn)
ReadBody(p) ==
    /\ procs[p].pc = "body"
    /\ LET r == procs[p]
           val == CASE r.op \in ByEntityKinds -> filterByTime(r.ids, T0)
                    [] r.op = "GetTransaction" -> GetTransaction(r.arg)
                    [] r.op = "GetUniqueCardsByIP" -> GetUniqueCardsByIP(r.arg)
                    [] r.op = "GetAllTransactions" -> GetAllTransactions(T0)
           torn == CASE r.op \in ByEntityKinds ->
                           \E k \in 1..Len(r.ids) : ~Exists(r.ids[k]) \/ ~Indexed(r.ids[k])
                     [] r.op = "GetTransaction" -> Exists(r.arg) /\ ~Indexed(r.arg)
                     [] r.op = "GetUniqueCardsByIP" ->
                           \E b \in cardsByIP[r.arg] :
                              ~\E id \in DOMAIN transactions :
                                  /\ transactions[id].IPAddress = r.arg
                                  /\ transactions[id].CardBIN = b
                     [] r.op = "GetAllTransactions" ->
                           \E id \in DOMAIN transactions : ~Indexed(id)
       IN SetProc(p, [pc |-> "runlock", op |-> r.op, arg |-> r.arg, val |-> val,
                      torn |-> torn])
    /\ UNCHANGED <<storeVars, now, ret, mu, successes, deliveries>>

\* return, with the deferred RUnlock
ReadReturn(p) ==
    /\ procs[p].pc = "runlock"
    /\ SetProc(p, [procs[p] EXCEPT !.pc = "done"])
    /\ mu' = [mu EXCEPT !.readers = @ \ {p}]
    /\ UNCHANGED <<storeVars, now, ret, successes, deliveries>>

ReadArgs(kind) ==
    CASE kind = "GetTransaction" -> {1}
      [] kind = "GetTransactionsByEmail" -> {"a@a.com"}
      [] kind = "GetTransactionsByIP" -> {"1.1.1.1"}
      [] kind = "GetTransactionsByDevice" -> {"dev2"}
      [] kind = "GetTransactionsByBIN" -> {"400000"}
      [] kind = "GetUniqueCardsByIP" -> {"2.2.2.2"}
      [] kind = "GetAllTransactions" -> {"all"}

NextConc ==
    \/ \E p \in Writers : \E id \in ConcIDs : SaveCall(p, ConcTx(p, id))
    \/ \E p \in Writers : SaveLock(p)
    \/ \E p \in Writers : SaveCheck(p)
    \/ \E p \in Writers : SavePrimary(p)
    \/ \E p \in Writers : SaveEmail(p)
    \/ \E p \in Writers : SaveIP(p)
    \/ \E p \in Writers : SaveDevice(p)
    \/ \E p \in Writers : SaveBIN(p)
    \/ \E p \in Writers : SaveCards(p)
    \/ \E p \in Writers : SaveReturn(p)
    \/ \E kind \in ReadKinds : \E arg \in ReadArgs(kind) : ReadCall(Reader, kind, arg)
    \/ ReadLock(Reader)
    \/ ReadIndex(Reader)
    \/ ReadBody(Reader)
    \/ ReadReturn(Reader)

SpecConc == Init /\ [][NextConc]_vars

\* C2: of the SaveTransaction calls made concurrently with one identifier,
\* exactly one returns nil and every other one returns ErrDuplicateTransaction;
\* once the lock is free the store holds the record of the call that returned
\* nil and each index holds the identifier exactly once.
C2_ExactlyOneConcurrentSaveSucceeds ==
    \A id \in ConcIDs :
      LET won == {k \in 1..Len(successes) : successes[k][2].TransactionID = id}
          returned == {p \in Writers : /\ procs[p].pc = "done"
                                       /\ procs[p].tx.TransactionID = id}
      IN /\ Cardinality(won) <= 1
         /\ returned # {} => Cardinality(won) = 1
         /\ \A p \in returned :
              /\ procs[p].err \in {NoError, ErrDuplicateTransaction}
              /\ procs[p].err = NoError => \E k \in won : successes[k] = <<p, procs[p].tx>>
         /\ Cardinality({p \in returned : procs[p].err = NoError}) <= 1
         /\ (won # {} /\ mu.writer = 0) =>
              /\ Exists(id)
              /\ \A k \in won : transactions[id] = successes[k][2]
              /\ Indexed(id)
              /\ \A e \in Emails : e # transactions[id].UserEmail
                                       => Occurrences(txByEmail[e], id) = 0
              /\ \A i \in IPs : i # transactions[id].IPAddress
                                       => Occurrences(txByIP[i], id) = 0
              /\ \A d \in Devices : d # transactions[id].DeviceFingerprint
                                       => Occurrences(txByDevice[d], id) = 0
              /\ \A b \in BINs : b # transactions[id].CardBIN
                                       => Occurrences(txByBIN[b], id) = 0

\* two goroutines saved different records under one identifier, the second
\* calling while the first call was in progress: one returned nil and the other
\* ErrDuplicateTransaction
C2_Witness ==
    /\ procs[1].pc = "done" /\ procs[2].pc = "done"
    /\ procs[1].overlap \/ procs[2].overlap
    /\ procs[1].tx.TransactionID = procs[2].tx.TransactionID
    /\ procs[1].tx # procs[2].tx
    /\ {procs[1].err, procs[2].err} = {NoError, ErrDuplicateTransaction}

\* C4: while a read operation holds the shared lock, every stored transaction is
\* in all of its indexes and every indexed identifier is in the primary map, and
\* no read has returned after seeing the maps disagree.
C4_ReadersSeeWholeSaves ==
    /\ mu.readers # {} => C3_IndexesMatchPrimary
    /\ \A p \in DOMAIN procs :
          (procs[p].pc \in {"runlock", "done"} /\ procs[p].op \in ReadKinds)
              => ~procs[p].torn

\* a by-entity read returned a transaction while a writer is waiting for the lock
C4_Witness ==
    /\ procs[Reader].pc = "runlock"
    /\ procs[Reader].op \in ByEntityKinds
    /\ Len(procs[Reader].val) > 0
    /\ \E p \in Writers : procs[p].pc = "lock"

----------------------------------------------------------------------------
(* Blocklist specification: the blocklist API, the clock and Score's override *)

BlocklistIDs == {"bl-1", "bl-2"}

\* the request every entry of the input domain matches in one entity: a young
\* account paying from a high-risk country with a high-risk BIN, off hours
MatchedReq ==
    [TransactionID |-> 1, Timestamp |-> T0, Amount |-> 600, Currency |-> "BRL",
     UserEmail |-> "a@a.com", IPAddress |-> "1.1.1.1", IPCountry |-> "RU",
     CardBIN |-> "400000", CardCountry |-> "US", DeviceFingerprint |-> "dev1",
     AccountCreatedAt |-> T0 - 15 * Minute, MerchantCountry |-> "BR"]

\* the value of each entity of a request
EntityValue(req, type) ==
    CASE type = EntityEmail -> req.UserEmail
      [] type = EntityIP -> req.IPAddress
      [] type = EntityBIN -> req.CardBIN
      [] type = EntityDevice -> req.DeviceFingerprint

\* the requests scored: one sharing all four entities with the entries, one
\* sharing none, one sharing only the email
BlockReqs ==
    {MatchedReq,
     [MatchedReq EXCEPT !.UserEmail = "b@b.com", !.IPAddress = "2.2.2.2",
                        !.CardBIN = "453211", !.DeviceFingerprint = "dev2"],
     [MatchedReq EXCEPT !.IPAddress = "2.2.2.2", !.CardBIN = "453211",
                        !.DeviceFingerprint = "dev2"]}

\* domain.BlocklistEntry (Reason and CreatedAt are not read by any lookup);
\* the store takes ListType as a plain string
BlockEntries ==
    {[ID |-> id, Type |-> type, Value |-> EntityValue(MatchedReq, type),
      ListType |-> lt, ExpiresAt |-> exp] :
        id \in BlocklistIDs, type \in EntityTypes,
        lt \in {ListBlock, ListAllow}, exp \in {NoExpiry, T0 + 1 * Minute}}
    \cup
    {[ID |-> id, Type |-> type, Value |-> EntityValue(MatchedReq, type),
      ListType |-> "watch", ExpiresAt |-> NoExpiry] :
        id \in BlocklistIDs, type \in EntityTypes}

\* the history the engine tests save before scoring: transactions sharing the
\* four entities of MatchedReq
HistoryTx(id) == newTx(id, "a@a.com", "1.1.1.1", "dev1", "400000", T0)

SaveBlocklistEntry(entry) ==
    /\ blocklist' = MapPut(blocklist, entry.ID, entry)
    /\ ret' = [op |-> "SaveBlocklistEntry", id |-> entry.ID]
    /\ UNCHANGED <<txVars, webhooks, now, mu, procs, successes, deliveries>>

\* mutant: the delete removes every entry naming the same entity
DeleteBlocklistEntry_ByEntity(id) ==
    /\ blocklist' = IF id \in DOMAIN blocklist
                    THEN [x \in {y \in DOMAIN blocklist :
                                    \/ blocklist[y].Type # blocklist[id].Type
                                    \/ blocklist[y].Value # blocklist[id].Value} |->
                             blocklist[x]]
                    ELSE blocklist
    /\ ret' = [op |-> "DeleteBlocklistEntry", id |-> id, ok |-> id \in DOMAIN blocklist,
               expired |-> id \in DOMAIN blocklist /\ ExpiredForCheck(blocklist[id], now)]
    /\ UNCHANGED <<txVars, webhooks, now, mu, procs, successes, deliveries>>

DeleteBlocklistEntry(id) ==
    /\ blocklist' = IF id \in DOMAIN blocklist THEN MapDelete(blocklist, id) ELSE blocklist
    /\ ret' = [op |-> "DeleteBlocklistEntry", id |-> id, ok |-> id \in DOMAIN blocklist,
               expired |-> id \in DOMAIN blocklist /\ ExpiredForCheck(blocklist[id], now)]
    /\ UNCHANGED <<txVars, webhooks, now, mu, procs, successes, deliveries>>

CallCheckBlocklist(type, value) ==
    /\ \E c \in CheckBlocklist(type, value) :
          ret' = [op |-> "CheckBlocklist", type |-> type, value |-> value,
                  hit |-> c.hit, id |-> c.entry.ID]
    /\ UNCHANGED <<storeVars, now, mu, procs, successes, deliveries>>

CallListBlocklistEntries ==
    /\ ret' = [op |-> "ListBlocklistEntries", ids |-> {e.ID : e \in ListBlocklistEntries}]
    /\ UNCHANGED <<storeVars, now, mu, procs, successes, deliveries>>

\* Engine.Score called on its own (the engine tests, loadSeedData before saving)
CallScore(req) ==
    /\ \E c \in checkLists(req) :
          ret' = [op |-> "Score", req |-> req, hit |-> c.hit, id |-> c.entry.ID,
                  res |-> ScoreWith(req, c)]
    /\ UNCHANGED <<storeVars, now, mu, procs, successes, deliveries>>

\* the wall clock advances by one minute
Tick ==
    /\ now < T0 + MaxTicks * Minute
    /\ now' = now + 1 * Minute
    /\ UNCHANGED <<storeVars, ret, mu, procs, successes, deliveries>>

NextBlock ==
    \/ \E entry \in BlockEntries : SaveBlocklistEntry(entry)
    \/ \E id \in BlocklistIDs : DeleteBlocklistEntry(id)
    \/ \E type \in EntityTypes : CallCheckBlocklist(type, EntityValue(MatchedReq, type))
    \/ CallListBlocklistEntries
    \/ \E req \in BlockReqs : CallScore(req)
    \/ \E id \in UsableIDs : SaveTransaction(HistoryTx(id))
    \/ Tick

SpecBlock == Init /\ [][NextBlock]_vars

----------------------------------------------------------------------------
(* Scoring specification: transactions submitted over HTTP, Score on its own, *)
(* one override entry and one webhook                                         *)

\* the identifiers a client submits: the next unused one, or the last one stored
SubmitIDs ==
    {n \in 1..MaxHistory : n \in {Cardinality(DOMAIN transactions),
                                  Cardinality(DOMAIN transactions) + 1}}

Geo(ip, card, merchant) == [ip |-> ip, card |-> card, merchant |-> merchant]
GeoHome == Geo("BR", "BR", "BR")
GeoFraud == Geo("RU", "US", "BR")
GeoProfiles == {GeoHome, GeoFraud, Geo("us", "US", "MX"), Geo("MX", "BR", "BR"),
                Geo("", "US", "BR")}

AccountAges == {15 * Minute, 2 * Hour, 3 * Day, 30 * Day}

\* 03:30, 03:35 and 14:30 of the same day
ReqTimes == {T0, T0 + 5 * Minute, T0 + 11 * Hour}

\* baseReq of the engine tests, with the fields the tests vary as parameters
baseReq(id, email, ip, bin, ts, amount, geo, age) ==
    [TransactionID |-> id, Timestamp |-> ts, Amount |-> amount, Currency |-> "BRL",
     UserEmail |-> email, IPAddress |-> ip, IPCountry |-> geo.ip, CardBIN |-> bin,
     CardCountry |-> geo.card, DeviceFingerprint |-> "dev1",
     AccountCreatedAt |-> ts - age, MerchantCountry |-> geo.merchant]

\* a returning customer
ReqHome(id) == baseReq(id, "a@a.com", "1.1.1.1", "453211", T0, 50, GeoHome, 30 * Day)
\* a second customer on the same card prefix, five minutes later
ReqShared(id) ==
    baseReq(id, "b@b.com", "1.1.1.1", "453211", T0 + 5 * Minute, 50, GeoHome, 30 * Day)
\* a fraud attempt
ReqFraud(id) ==
    baseReq(id, "a@a.com", "1.1.1.1", "400000", T0 + 5 * Minute, 600, GeoFraud, 15 * Minute)
\* an afternoon purchase with a prepaid card from a two-hour-old account
ReqPrepaid(id) ==
    baseReq(id, "a@a.com", "1.1.1.1", "472297", T0 + 11 * Hour, 30, GeoHome, 2 * Hour)
\* a request that fails validation
ReqInvalid(id) == [ReqHome(id) EXCEPT !.Amount = 0]

\* the requests submitted: mixed traffic first, and for the last two of the
\* MaxHistory transactions a burst of the two customers who share a card prefix
SubmitReqs ==
    UNION {IF Cardinality(DOMAIN transactions) < MaxHistory - 2
           THEN {ReqHome(id), ReqFraud(id), ReqPrepaid(id), ReqInvalid(id)}
           ELSE {ReqHome(id), ReqShared(id)} : id \in SubmitIDs}

\* the requests Score is called on without a save
ScoreReqs ==
    {ReqHome(1), ReqFraud(1), ReqPrepaid(1),
     baseReq(1, "a@a.com", "1.1.1.1", "453211", T0, 200, GeoHome, 30 * Day),
     baseReq(1, "b@b.com", "2.2.2.2", "400000", T0, 600, GeoFraud, 15 * Minute)}

\* the requests the claims about Score range over: those of ScoreReqs, a large
\* purchase with every card prefix at every time of day, a purchase six times the
\* usual amount, and every geography and account age
ProbeReqs ==
    ScoreReqs
    \cup
    {baseReq(1, "a@a.com", "1.1.1.1", bin, ts, 600, GeoHome, 30 * Day) :
        bin \in BINs, ts \in ReqTimes}
    \cup
    {baseReq(1, "a@a.com", "1.1.1.1", "453211", T0, 300, GeoHome, 30 * Day)}
    \cup
    {baseReq(1, "a@a.com", "1.1.1.1", "400000", T0, 600, geo, 15 * Minute) :
        geo \in GeoProfiles}
    \cup
    {baseReq(1, "a@a.com", "1.1.1.1", "400000", T0, 600, GeoFraud, age) :
        age \in AccountAges}

\* the override entry: a permanent block on the address 2.2.2.2
ScoreEntries ==
    {[ID |-> "bl-1", Type |-> EntityIP, Value |-> "2.2.2.2", ListType |-> ListBlock,
      ExpiresAt |-> NoExpiry]}

\* domain.WebhookConfig (URL and CreatedAt are not read by NotifyAsync's filter)
ScoreWebhooks == {[ID |-> "wh-1", Threshold |-> 80, Active |-> TRUE]}

SaveWebhook(wh) ==
    /\ webhooks' = MapPut(webhooks, wh.ID, wh)
    /\ ret' = [op |-> "SaveWebhook", id |-> wh.ID]
    /\ UNCHANGED <<txVars, blocklist, now, mu, procs, successes, deliveries>>

DeleteWebhook(id) ==
    /\ webhooks' = IF id \in DOMAIN webhooks THEN MapDelete(webhooks, id) ELSE webhooks
    /\ ret' = [op |-> "DeleteWebhook", id |-> id, ok |-> id \in DOMAIN webhooks]
    /\ UNCHANGED <<txVars, blocklist, now, mu, procs, successes, deliveries>>

\* mutant: Score saves the transaction it has scored
ScoreCall_Saves(req) ==
    /\ \E c \in checkLists(req) :
          /\ ret' = [op |-> "Score", hit |-> c.hit,
                     over |-> SumDeltas(ScoreWith(req, c).factors) > 100]
          /\ SaveEffect(ScoredTx(req, ScoreWith(req, c)))
    /\ UNCHANGED <<blocklist, webhooks, now, mu, procs, successes, deliveries>>

\* Engine.Score called on its own: whether an entry hit, and whether the returned
\* deltas add up to more than 100
ScoreCall(req) ==
    /\ \E c \in checkLists(req) :
          ret' = [op |-> "Score", hit |-> c.hit,
                  over |-> SumDeltas(ScoreWith(req, c).factors) > 100]
    /\ UNCHANGED <<storeVars, now, mu, procs, successes, deliveries>>

NextScore ==
    \/ \E decoded \in BOOLEAN : \E req \in SubmitReqs : SubmitTransaction(decoded, req)
    \/ \E req \in ScoreReqs : ScoreCall(req)
    \/ \E entry \in ScoreEntries : SaveBlocklistEntry(entry)
    \/ \E wh \in ScoreWebhooks : SaveWebhook(wh)

SpecScore == Init /\ [][NextScore]_vars

----------------------------------------------------------------------------
(* Claims about the score and the recommendation *)

\* C5: for every request and every reachable store state, Score returns a score in
\* [0, 100], every returned factor has a non-negative ScoreDelta, and when no
\* block/allow entry hits the score equals min(100, sum of the returned deltas).
C5_ScoreBounded ==
    \A req \in ProbeReqs \cup SubmitReqs :
        \A c \in checkLists(req) :
            LET res == ScoreWith(req, c)
                sum == SumDeltas(res.factors)
            IN /\ res.score \in 0..100
               /\ \A k \in 1..Len(res.factors) : res.factors[k].ScoreDelta >= 0
               /\ ~c.hit => res.score = (IF sum > 100 THEN 100 ELSE sum)

\* a rule-phase Score call returned 100 for factors that add up to more than 100,
\* with transactions stored
C5_Witness ==
    /\ ret.op = "Score"
    /\ ~ret.hit
    /\ ret.over
    /\ RulePhase(ReqFraud(1)).score = 100
    /\ SumDeltas(RulePhase(ReqFraud(1)).factors) > 100
    /\ "email_velocity_10min" \in {RulePhase(ReqFraud(1)).factors[k].Name :
                                      k \in 1..Len(RulePhase(ReqFraud(1)).factors)}

\* the band the spec assigns to a score
Band(score) ==
    IF score <= 30 THEN <<"approve", "low">>
    ELSE IF score >= 31 /\ score <= 70 THEN <<"review", "medium">>
    ELSE <<"decline", "high">>

\* C9: Recommend is total with exactly three bands: <= 30 approve/low, 31..70
\* review/medium, >= 71 decline/high; every transaction stored through
\* SubmitTransaction has a RiskLevel and Recommendation consistent with its RiskScore.
C9_RecommendBands ==
    /\ \A score \in -20..120 :
          <<Recommend(score).recommendation, Recommend(score).riskLevel>> = Band(score)
    /\ \A id \in DOMAIN transactions :
          <<transactions[id].Recommendation, transactions[id].RiskLevel>>
              = Band(transactions[id].RiskScore)

\* transactions of all three bands are stored
C9_Witness ==
    /\ ret.op = "SubmitTransaction"
    /\ ret.status = 201
    /\ \E i, j, k \in DOMAIN transactions :
          /\ transactions[i].RiskScore <= 30 /\ transactions[i].Recommendation = ActionApprove
          /\ transactions[j].RiskScore \in 31..70 /\ transactions[j].RiskLevel = RiskMedium
          /\ transactions[k].RiskScore >= 71 /\ transactions[k].Recommendation = ActionDecline

\* C10: Score leaves the store unchanged: transactions, the four secondary
\* indexes, cardsByIP, the blocklist and the webhooks are the same before and after
\* any Score call, in the override phase and in the rule phase.
C10_ScoreLeavesStore ==
    [][ret'.op = "Score" => UNCHANGED storeVars]_vars

\* Score has returned from the override phase with transactions, a blocklist entry
\* and a webhook stored
C10_Witness ==
    /\ ret.op = "Score"
    /\ ret.hit
    /\ DOMAIN transactions # {}
    /\ DOMAIN blocklist # {}
    /\ DOMAIN webhooks # {}

----------------------------------------------------------------------------
(* Claims about the override phase and expiry *)

BlockOutcome == [score |-> 100, factors |-> << [Name |-> "blocklist_match", ScoreDelta |-> 100] >>]
AllowOutcome == [score |-> 0, factors |-> << [Name |-> "allowlist_match", ScoreDelta |-> 0] >>]

\* the stored entries of one entity type that match the request and whose expiry,
\* if any, is not before the clock
ActiveMatches(req, type) ==
    {e \in {blocklist[id] : id \in DOMAIN blocklist} :
        /\ e.Type = type
        /\ e.Value = EntityValue(req, type)
        /\ (e.ExpiresAt = NoExpiry \/ e.ExpiresAt >= now)}

\* C6: whenever the store holds a non-expired entry whose (type, value) matches the
\* request's email, IP, BIN or device, Score returns score 100 with the single
\* factor blocklist_match or score 0 with the single factor allowlist_match, and no
\* rule factor; for every entry SaveBlocklistEntry accepts.
C6_MatchingEntryOverrides ==
    \A req \in BlockReqs :
        (\E type \in EntityTypes : ActiveMatches(req, type) # {})
            => Score(req) \subseteq {BlockOutcome, AllowOutcome}

OverrideOrder == << EntityEmail, EntityIP, EntityBIN, EntityDevice >>

\* C7: the override lookup goes email, IP, BIN, device, and the first entity that
\* has a non-expired entry decides: Score returns the outcome of one of that
\* entity's block or allow entries, whatever the later entities hold.  With an
\* allow entry on the email and a block entry on the IP the score is 0; with a block
\* entry on the IP and an allow entry on the device the score is 100.
C7_FirstEntityDecides ==
    \A req \in BlockReqs :
        /\ \A k \in 1..Len(OverrideOrder) :
              LET first == ActiveMatches(req, OverrideOrder[k]) IN
              ( /\ first # {}
                /\ \A j \in 1..(k - 1) : ActiveMatches(req, OverrideOrder[j]) = {}
                /\ \A e \in first : e.ListType \in {ListBlock, ListAllow} )
              => Score(req) = {IF e.ListType = ListBlock THEN BlockOutcome ELSE AllowOutcome :
                                  e \in first}
        /\ ( /\ \E e \in ActiveMatches(req, EntityEmail) : e.ListType = ListAllow
             /\ \E e \in ActiveMatches(req, EntityIP) : e.ListType = ListBlock )
           => Score(req) = {AllowOutcome}
        /\ ( /\ ActiveMatches(req, EntityEmail) = {}
             /\ \E e \in ActiveMatches(req, EntityIP) : e.ListType = ListBlock
             /\ \E e \in ActiveMatches(req, EntityDevice) : e.ListType = ListAllow )
           => Score(req) = {BlockOutcome}

\* Score returned 0 for a request whose email is allowlisted and whose IP is
\* blocklisted, both entries in force
C7_Witness ==
    /\ ret.op = "Score"
    /\ ret.req = MatchedReq
    /\ ret.res = AllowOutcome
    /\ \E e \in ActiveMatches(MatchedReq, EntityEmail) : e.ListType = ListAllow
    /\ \E e \in ActiveMatches(MatchedReq, EntityIP) : e.ListType = ListBlock

\* the stored entries whose expiry the clock has passed
PastExpiry == {id \in DOMAIN blocklist :
                  blocklist[id].ExpiresAt # NoExpiry /\ blocklist[id].ExpiresAt < now}

\* C8, lookups: an entry whose expiry the clock has passed is returned by neither
\* CheckBlocklist nor ListBlocklistEntries, and Score applies no override for it
C8_Lookups ==
    \A id \in PastExpiry :
        LET e == blocklist[id] IN
        /\ \A c \in CheckBlocklist(e.Type, e.Value) : c.hit => c.entry.ID # id
        /\ \A l \in ListBlocklistEntries : l.ID # id
        /\ \A req \in BlockReqs :
              /\ \A c \in checkLists(req) : c.hit => c.entry.ID # id
              /\ (\A type \in EntityTypes : ActiveMatches(req, type) = {})
                    => Score(req) = {RulePhase(req)}

\* C8, frame: the clock advancing removes no entry; an entry leaves the store only
\* in a DeleteBlocklistEntry call for its id, which returns true, expired or not
C8_Frame ==
    /\ now' # now => blocklist' = blocklist
    /\ \A id \in DOMAIN blocklist :
          id \notin DOMAIN blocklist'
             => ret'.op = "DeleteBlocklistEntry" /\ ret'.id = id /\ ret'.ok
    /\ (ret'.op = "DeleteBlocklistEntry" /\ ret'.id \in DOMAIN blocklist)
          => /\ ret'.ok
             /\ ret'.id \notin DOMAIN blocklist'
             /\ ret'.expired = (ret'.id \in PastExpiry)

\* C8: as the clock advances past an entry's expiry, CheckBlocklist and
\* ListBlocklistEntries stop returning it and Score stops applying its override,
\* but the entry stays in the store: only DeleteBlocklistEntry(id) removes it, and
\* that call on an expired entry returns true.
C8_ExpiryHidesButKeeps == []C8_Lookups /\ [][C8_Frame]_vars

\* the clock has passed the expiry of two entries that were in force at the start:
\* one is still stored and hidden from ListBlocklistEntries, the other has just been
\* deleted, the call returning true
C8_Witness ==
    /\ ret.op = "DeleteBlocklistEntry"
    /\ ret.ok
    /\ ret.expired
    /\ \E id \in PastExpiry :
          /\ blocklist[id].ExpiresAt > T0
          /\ blocklist[id] \notin ListBlocklistEntries
          /\ CheckBlocklistHits(blocklist[id].Type, blocklist[id].Value) = {}

----------------------------------------------------------------------------
(* Claims about the store's queries *)

\* the by-entity query of each entity type
ByEntity(type, value, since) ==
    CASE type = EntityEmail -> GetTransactionsByEmail(value, since)
      [] type = EntityIP -> GetTransactionsByIP(value, since)
      [] type = EntityDevice -> GetTransactionsByDevice(value, since)
      [] type = EntityBIN -> GetTransactionsByBIN(value, since)

\* the stored transactions of an entity stamped at or after since
StoredOf(type, value, since) ==
    {tx \in {transactions[id] : id \in DOMAIN transactions} :
        /\ EntityValue(tx, type) = value
        /\ tx.Timestamp >= since}

\* C13, result: the query returns exactly the stored transactions of the entity
\* stamped at or after since, each once, all of them in GetAllTransactions(since)
C13_Result ==
    \A type \in EntityTypes : \A value \in EntityValues(type) : \A since \in StoreSince :
        LET res == ByEntity(type, value, since) IN
        /\ {res[k] : k \in 1..Len(res)} = StoredOf(type, value, since)
        /\ Len(res) = Cardinality(StoredOf(type, value, since))
        /\ {res[k] : k \in 1..Len(res)} \subseteq GetAllTransactions(since)

\* C13, repetition: a query leaves the store as it was and returns the query's
\* value in that store, so the same query on the unmodified store returns the same
C13_Repeat ==
    (ret' # ret /\ ret'.op = "GetTransactionsBy")
        => /\ UNCHANGED storeVars
           /\ ret'.val = ByEntity(ret'.type, ret'.value, ret'.since)

\* C13: for each entity type the by-entity query with value v and bound since
\* returns exactly the stored transactions whose field equals v and whose timestamp
\* is at or after since (equal included), each at most once; the result is a subset
\* of GetAllTransactions(since), and repeating the query on an unmodified store
\* returns the same set.
C13_ByEntityQuery == []C13_Result /\ [][C13_Repeat]_vars

\* a query bounded by the very timestamp of the stored transactions returned one of
\* two stored transactions, the other belonging to another entity
C13_Witness ==
    /\ ret.op = "GetTransactionsBy"
    /\ ret.since = T0
    /\ Len(ret.val) = 1
    /\ ret.val[1].Timestamp = ret.since
    /\ Cardinality(DOMAIN transactions) = 2
    /\ ret.val = ByEntity(ret.type, ret.value, ret.since)

\* the distinct BINs among the stored transactions of an IP address
StoredBINs(ip) ==
    {transactions[id].CardBIN : id \in {i \in DOMAIN transactions :
                                           transactions[i].IPAddress = ip}}

\* C14: after any sequence of saves GetUniqueCardsByIP(ip) is the number of
\* distinct BINs among the stored transactions of that IP, 0 for an IP never seen,
\* and a refused (duplicate) save leaves every count as it was.
C14_UniqueCards ==
    /\ [](\A ip \in IPs : GetUniqueCardsByIP(ip) = Cardinality(StoredBINs(ip)))
    /\ [][(ret'.op = "SaveTransaction" /\ ret'.err = ErrDuplicateTransaction)
            => \A ip \in IPs : GetUniqueCardsByIP(ip)' = GetUniqueCardsByIP(ip)]_vars

\* a duplicate save carrying a BIN its IP had not used was refused; that IP counts
\* two BINs or none, and the other IP the opposite
C14_Witness ==
    /\ ret.op = "SaveTransaction"
    /\ ret.err = ErrDuplicateTransaction
    /\ ret.tx.CardBIN \notin cardsByIP[ret.tx.IPAddress]
    /\ \E ip \in IPs : GetUniqueCardsByIP(ip) = 0
    /\ \E ip \in IPs : GetUniqueCardsByIP(ip) = 2

----------------------------------------------------------------------------
(* Claims about scenarios and the documented methodology *)

\* C16: in every store state where no allow entry in force matches the request, the
\* request coming from RU with a US card at a BR merchant, a high-risk BIN, an
\* account 15 minutes old and the timestamp 03:30 UTC is scored above 70 and
\* declined, whatever history and whatever other entries are stored.
C16_ObviousFraudDeclined ==
    (\A type \in EntityTypes : \A e \in ActiveMatches(MatchedReq, type) :
        e.ListType # ListAllow)
    => \A res \in Score(MatchedReq) :
          /\ res.score > ThresholdReview
          /\ Recommend(res.score).recommendation = ActionDecline

\* the request was scored 100 by the rules over a history of two transactions,
\* while the store held a matching entry in force that is not an allow entry
C16_Witness ==
    /\ ret.op = "Score"
    /\ ret.req = MatchedReq
    /\ isHighRiskBIN(MatchedReq.CardBIN)
    /\ MatchedReq.Timestamp = StartOfDay + 3 * Hour + 30 * Minute
    /\ ret.res.score = 100
    /\ Len(ret.res.factors) > 1
    /\ ret.res \in Score(MatchedReq)
    /\ Cardinality(DOMAIN transactions) = 2
    /\ \E type \in EntityTypes : \E e \in ActiveMatches(MatchedReq, type) :
          e.ListType # ListAllow
    /\ \A type \in EntityTypes : \A e \in ActiveMatches(MatchedReq, type) :
          e.ListType # ListAllow

\* the factors of the geography rule among a sequence of factors
GeoFactors(factors) ==
    SelectSeq(factors, LAMBDA f : f.Name \in {"geo_ip_card_mismatch", "geo_ip_merchant_mismatch",
                                              "geo_high_risk_country", "geo_three_way_mismatch"})

\* C18: the factors the geography rule produces add up to at most 50 points, for
\* every request scored and in every transaction stored.
C18_GeographyAtMost50 ==
    /\ \A req \in ProbeReqs : SumDeltas(ruleGeography(buildContext(req))) <= 50
    /\ \A id \in DOMAIN transactions : SumDeltas(GeoFactors(transactions[id].Factors)) <= 50

----------------------------------------------------------------------------
(* API specification: the HTTP endpoints, one request served after another; *)
(* the seed endpoint goes through its array one element at a time           *)

\* the README's example request: 99.99 BRL (99 in whole units, compared with 50
\* only), all countries BR, prefix 453211, 14:30 UTC, an account of 1 January 2025
ReadmeReq(id) ==
    baseReq(id, "a@a.com", "1.1.1.1", "453211", StartOfDay + 14 * Hour + 30 * Minute,
            99, GeoHome, 420 * Day)

\* a request with a zero amount, and one without transaction_id
ReqZeroAmount(id) == [ReadmeReq(id) EXCEPT !.Amount = 0]
ReqNoID == [ReadmeReq(0) EXCEPT !.TransactionID = 0]

\* the bodies posted to /transactions: the README's example and a fraud attempt
\* under a stored or the next identifier, and the two invalid requests
ApiReqs ==
    UNION {{ReadmeReq(id), ReqFraud(id)} : id \in UsableIDs}
    \cup {ReqZeroAmount(1), ReqNoID}

\* the elements of the arrays posted to /admin/seed
SeedReqs == {ReadmeReq(1), ReqZeroAmount(2), ReqNoID}

\* the arrays posted to /admin/seed
SeedBatches ==
    UNION {[1..n -> SeedReqs] : n \in 1..MaxBatch}

\* no seed request is being served
Serving == procs[1].pc = "idle"

\* Handler.SeedData, decoding: a body that is not an array is refused, else the
\* loop starts with loaded = skipped = 0
SeedData(decoded, batch) ==
    /\ procs[1].pc = "idle"
    /\ IF ~decoded
       THEN /\ ret' = [op |-> "SeedData", status |-> 400]
            /\ UNCHANGED procs
       ELSE /\ procs' = [procs EXCEPT ![1] = [pc |-> "seed", batch |-> batch,
                                               loaded |-> 0, skipped |-> 0]]
            /\ UNCHANGED ret
    /\ UNCHANGED <<storeVars, now, mu, successes, deliveries>>

\* mutant: a seeded element replaces the stored transaction of the same id
SeedStep_Upsert ==
    /\ procs[1].pc = "seed"
    /\ procs[1].batch # << >>
    /\ LET req == Head(procs[1].batch) IN
       \E res \in Score(req) :
          LET tx == ScoredTx(req, res) IN
            /\ IF Exists(tx.TransactionID)
               THEN /\ transactions' = MapPut(transactions, tx.TransactionID, tx)
                    /\ UNCHANGED <<txByEmail, txByIP, txByDevice, txByBIN, cardsByIP>>
               ELSE SaveEffect(tx)
            /\ procs' = [procs EXCEPT ![1].batch = Tail(@), ![1].loaded = @ + 1]
    /\ UNCHANGED <<blocklist, webhooks, now, ret, mu, successes, deliveries>>

\* Handler.SeedData, one turn of the loop: score, recommend, save, count
SeedStep ==
    /\ procs[1].pc = "seed"
    /\ procs[1].batch # << >>
    /\ LET req == Head(procs[1].batch) IN
       \E res \in Score(req) :
          LET tx == ScoredTx(req, res) IN
            /\ SaveEffect(tx)
            /\ procs' = IF SaveResult(tx) = ErrDuplicateTransaction
                        THEN [procs EXCEPT ![1].batch = Tail(@), ![1].skipped = @ + 1]
                        ELSE [procs EXCEPT ![1].batch = Tail(@), ![1].loaded = @ + 1]
    /\ UNCHANGED <<blocklist, webhooks, now, ret, mu, successes, deliveries>>

\* Handler.SeedData, the response once the array is exhausted
SeedReturn ==
    /\ procs[1].pc = "seed"
    /\ procs[1].batch = << >>
    /\ ret' = [op |-> "SeedData", status |-> 200, loaded |-> procs[1].loaded,
               skipped |-> procs[1].skipped]
    /\ procs' = [procs EXCEPT ![1] = [pc |-> "idle"]]
    /\ UNCHANGED <<storeVars, now, mu, successes, deliveries>>

\* Handler.GetTransaction
Handler_GetTransaction(id) ==
    /\ ret' = IF GetTransaction(id).ok
              THEN [op |-> "GetTransaction", id |-> id, status |-> 200,
                    tx |-> GetTransaction(id).tx]
              ELSE [op |-> "GetTransaction", id |-> id, status |-> 404, tx |-> NoTx]
    /\ UNCHANGED <<storeVars, now, mu, procs, successes, deliveries>>

\* buildFraudReport's summary: the transactions counted by band
buildFraudReport(txns) ==
    [total |-> Cardinality(txns),
     high |-> Cardinality({tx \in txns : tx.RiskScore > ThresholdReview}),
     medium |-> Cardinality({tx \in txns : tx.RiskScore <= ThresholdReview
                                            /\ tx.RiskScore > ThresholdApprove}),
     low |-> Cardinality({tx \in txns : tx.RiskScore <= ThresholdApprove})]

\* a domain.FraudPattern: Entity is the address, email or prefix its Description names
pattern(type, entity, count) == [Type |-> type, Entity |-> entity, Count |-> count]

\* buildFraudReport's patterns before they are sorted: one per key of ipCounts,
\* emailCounts and binCounts that reaches 5, one per key of ipBINs with 3 prefixes
detectPatterns(txns) ==
    LET ipCount(ip) == Cardinality({tx \in txns : tx.IPAddress = ip})
        emailCount(email) == Cardinality({tx \in txns : tx.UserEmail = email})
        binCount(bin) == Cardinality({tx \in txns : tx.CardBIN = bin})
        ipBINs(ip) == {tx.CardBIN : tx \in {t \in txns : t.IPAddress = ip}}
    IN {pattern("ip_velocity", ip, ipCount(ip)) :
            ip \in {tx.IPAddress : tx \in {t \in txns : ipCount(t.IPAddress) >= 5}}}
       \cup
       {pattern("email_velocity", email, emailCount(email)) :
            email \in {tx.UserEmail : tx \in {t \in txns : emailCount(t.UserEmail) >= 5}}}
       \cup
       {pattern("card_cycling", ip, Cardinality(ipBINs(ip))) :
            ip \in {tx.IPAddress : tx \in {t \in txns :
                                              Cardinality(ipBINs(t.IPAddress)) >= 3}}}
       \cup
       {pattern("bin_concentration", bin, binCount(bin)) :
            bin \in {tx.CardBIN : tx \in {t \in txns : binCount(t.CardBIN) >= 5}}}

\* mutant: the comparison puts the smaller count first
patternLess_Ascending(a, b) == a.Count < b.Count

\* the less function buildFraudReport hands to sort.Slice
patternLess(a, b) == a.Count > b.Count

\* sort.Slice over the patterns, appended in the order the maps were ranged over:
\* any arrangement in which no pattern is less than one before it
sortPatterns(patterns) ==
    {s \in [1..Cardinality(patterns) -> patterns] :
        /\ \A i, j \in DOMAIN s : i # j => s[i] # s[j]
        /\ \A i, j \in DOMAIN s : i < j => ~patternLess(s[j], s[i])}

\* Handler.GetFraudReport: the report over the last 24 hours
GetFraudReport ==
    /\ \E patterns \in sortPatterns(detectPatterns(GetAllTransactions(now - 24 * Hour))) :
          ret' = [op |-> "GetFraudReport",
                  summary |-> buildFraudReport(GetAllTransactions(now - 24 * Hour)),
                  patterns |-> patterns]
    /\ UNCHANGED <<storeVars, now, mu, procs, successes, deliveries>>

\* the bodies posted to /blocklist: a block on the address 2.2.2.2, and bodies with
\* an unknown type, no value, an unknown list type
BlocklistBodies ==
    {[Type |-> EntityIP, Value |-> "2.2.2.2", ListType |-> ListBlock],
     [Type |-> "card", Value |-> "2.2.2.2", ListType |-> ListBlock],
     [Type |-> EntityIP, Value |-> "", ListType |-> ListBlock],
     [Type |-> EntityIP, Value |-> "2.2.2.2", ListType |-> "watch"]}

\* Handler.AddBlocklistEntry: the entry is stored under a fresh identifier
AddBlocklistEntry(decoded, body) ==
    IF \/ ~decoded
       \/ body.Type \notin {EntityEmail, EntityIP, EntityBIN, EntityDevice}
       \/ body.Value = ""
       \/ body.ListType \notin {ListBlock, ListAllow}
    THEN /\ ret' = [op |-> "AddBlocklistEntry", status |-> 400]
         /\ UNCHANGED <<storeVars, now, mu, procs, successes, deliveries>>
    ELSE \E id \in {"bl-1"} \ DOMAIN blocklist :
           /\ blocklist' = MapPut(blocklist, id,
                                  [ID |-> id, Type |-> body.Type, Value |-> body.Value,
                                   ListType |-> body.ListType, ExpiresAt |-> NoExpiry])
           /\ ret' = [op |-> "AddBlocklistEntry", status |-> 201]
           /\ UNCHANGED <<txVars, webhooks, now, mu, procs, successes, deliveries>>

\* Handler.DeleteBlocklistEntry
Handler_DeleteBlocklistEntry(id) ==
    /\ blocklist' = IF id \in DOMAIN blocklist THEN MapDelete(blocklist, id) ELSE blocklist
    /\ ret' = [op |-> "DeleteBlocklistEntry",
               status |-> IF id \in DOMAIN blocklist THEN 204 ELSE 404]
    /\ UNCHANGED <<txVars, webhooks, now, mu, procs, successes, deliveries>>

\* Handler.RegisterWebhook: the threshold 0 stands for the default 80; the webhook
\* is stored active under a fresh identifier
RegisterWebhook(decoded, url, threshold) ==
    IF ~decoded \/ url = "" \/ threshold < 0 \/ threshold > 100
    THEN /\ ret' = [op |-> "RegisterWebhook", status |-> 400]
         /\ UNCHANGED <<storeVars, now, mu, procs, successes, deliveries>>
    ELSE \E id \in {"wh-1"} \ DOMAIN webhooks :
           /\ webhooks' = MapPut(webhooks, id,
                                 [ID |-> id, Active |-> TRUE,
                                  Threshold |-> IF threshold = 0 THEN 80 ELSE threshold])
           /\ ret' = [op |-> "RegisterWebhook", status |-> 201]
           /\ UNCHANGED <<txVars, blocklist, now, mu, procs, successes, deliveries>>

\* Handler.DeleteWebhook
Handler_DeleteWebhook(id) ==
    /\ webhooks' = IF id \in DOMAIN webhooks THEN MapDelete(webhooks, id) ELSE webhooks
    /\ ret' = [op |-> "DeleteWebhook",
               status |-> IF id \in DOMAIN webhooks THEN 204 ELSE 404]
    /\ UNCHANGED <<txVars, blocklist, now, mu, procs, successes, deliveries>>

NextApi ==
    \/ Serving /\ \E decoded \in BOOLEAN : \E req \in ApiReqs : SubmitTransaction(decoded, req)
    \/ \E decoded \in BOOLEAN : \E batch \in SeedBatches : SeedData(decoded, batch)
    \/ SeedStep
    \/ SeedReturn
    \/ Serving /\ \E id \in TxIDs : Handler_GetTransaction(id)
    \/ Serving /\ GetFraudReport
    \/ Serving /\ \E decoded \in BOOLEAN : \E body \in BlocklistBodies :
                      AddBlocklistEntry(decoded, body)
    \/ Serving /\ Handler_DeleteBlocklistEntry("bl-1")
    \/ Serving /\ \E decoded \in BOOLEAN : \E threshold \in {0, 101} :
                      \E url \in {"", "http://a.com"} : RegisterWebhook(decoded, url, threshold)
    \/ Serving /\ Handler_DeleteWebhook("wh-1")

SpecApi == Init /\ [][NextApi]_vars

----------------------------------------------------------------------------
(* Claims about the HTTP endpoints *)

\* C15, the store: every stored transaction is still stored, unchanged, after the step
C15_Kept ==
    \A id \in DOMAIN transactions :
        id \in DOMAIN transactions' /\ transactions'[id] = transactions[id]

\* C15, the endpoint: GET /transactions/{id} answers 200 with the stored record
\* when the id is stored, and 404 otherwise
C15_Returned ==
    (ret' # ret /\ ret'.op = "GetTransaction")
        => IF ret'.id \in DOMAIN transactions
           THEN ret'.status = 200 /\ ret'.tx = transactions[ret'.id]
           ELSE ret'.status = 404

\* C15: once a transaction is saved under an id, every later GetTransaction of that
\* id returns the same record, whatever requests (submissions, duplicates, seeds,
\* blocklist and webhook changes, reports) are served in between: no step removes
\* or rewrites a stored transaction.
C15_SavedForGood == [][C15_Kept /\ C15_Returned]_vars

\* GET returned the stored transaction 1 while a second transaction, a blocklist
\* entry, a webhook and a delivery were there
C15_Witness ==
    /\ ret.op = "GetTransaction"
    /\ ret.status = 200
    /\ ret.id = 1
    /\ ret.tx = transactions[1]
    /\ Cardinality(DOMAIN transactions) >= 2
    /\ DOMAIN blocklist # {}
    /\ DOMAIN webhooks # {}
    /\ DOMAIN deliveries # {}

\* the request fields of a stored transaction
RequestOf(tx) == [f \in DOMAIN ReadmeReq(1) |-> tx[f]]

\* C17: the README's example request, submitted to an empty store, is saved with
\* risk_score 5, risk_level low, recommendation approve and the single factor
\* first_transaction of delta 5.
C17_ReadmeExample ==
    [][(/\ DOMAIN transactions = {}
        /\ DOMAIN blocklist = {}
        /\ ret' # ret
        /\ ret'.op = "SubmitTransaction"
        /\ ret'.status = 201)
       => \A id \in DOMAIN transactions' :
             RequestOf(transactions'[id]) = ReadmeReq(id)
             => /\ transactions'[id].RiskScore = 5
                /\ transactions'[id].RiskLevel = RiskLow
                /\ transactions'[id].Recommendation = ActionApprove
                /\ transactions'[id].Factors = << factor("first_transaction", 5) >>]_vars

\* C20: every stored transaction satisfies validateTransactionRequest: no
\* endpoint scores and stores a request that fails validation.
C20_StoredAreValid ==
    \A id \in DOMAIN transactions : validateTransactionRequest(transactions[id]) = ""

----------------------------------------------------------------------------
(* Submission specification: concurrent requests to /transactions and       *)
(* /admin/seed, one goroutine each, interleaved at the granularity of the   *)
(* store's calls (each call holds Store.mu for its duration), and webhook   *)
(* registrations.  The blocklist is not modified here, so the lookups of    *)
(* checkLists return the same whenever they run and are taken in one step.  *)

\* a purchase of the same customer stamped at the same instant as the fraud attempt
ReqTwin(id) == baseReq(id, "a@a.com", "1.1.1.1", "453211", T0 + 5 * Minute, 50, GeoHome,
                       30 * Day)

\* the requests served, one goroutine each: a fraud attempt, a purchase of the same
\* customer with the same timestamp and an invalid body posted to /transactions,
\* and the fraud attempt as the one element of an array posted to /admin/seed
HandlerReqs ==
    {[kind |-> "submit", req |-> ReqFraud(1)], [kind |-> "submit", req |-> ReqTwin(2)],
     [kind |-> "submit", req |-> ReqInvalid(1)], [kind |-> "seed", req |-> ReqFraud(1)]}

\* buildContext's store calls, in its order
Lookup(req, k) ==
    CASE k = 1 -> GetTransactionsByEmail(req.UserEmail, req.Timestamp - 24 * Hour)
      [] k = 2 -> GetTransactionsByEmail(req.UserEmail, req.Timestamp - 10 * Minute)
      [] k = 3 -> GetTransactionsByIP(req.IPAddress, req.Timestamp - 1 * Hour)
      [] k = 4 -> GetTransactionsByDevice(req.DeviceFingerprint, req.Timestamp - 30 * Minute)
      [] k = 5 -> GetTransactionsByBIN(req.CardBIN, req.Timestamp - 1 * Hour)
      [] k = 6 -> GetUniqueCardsByIP(req.IPAddress)

\* the ruleContext made of the results of the six calls
CtxOf(req, reads) ==
    [req |-> req, emailLast24h |-> reads[1], emailLast10m |-> reads[2],
     ipLast1h |-> reads[3], deviceLast30m |-> reads[4], binLast1h |-> reads[5],
     uniqueCardsByIP |-> reads[6]]

\* Score returns from its switch, without building a context
Overridden(c) == c.hit /\ c.entry.ListType \in {ListBlock, ListAllow}

\* the handler is entered: SubmitTransaction validates, SeedData does not; Score
\* starts with checkLists
HBegin(p, kind, req) ==
    /\ procs[p].pc = "idle"
    /\ IF kind = "submit" /\ validateTransactionRequest(req) # ""
       THEN /\ procs' = [procs EXCEPT ![p] = [pc |-> "done", kind |-> kind, req |-> req,
                                               saved |-> FALSE, sawOwn |-> FALSE]]
            /\ ret' = [op |-> "SubmitTransaction", status |-> 400]
       ELSE /\ \E c \in checkLists(req) :
                 procs' = [procs EXCEPT ![p] =
                              [pc |-> IF Overridden(c) THEN "save" ELSE "lookup",
                               kind |-> kind, req |-> req, c |-> c, reads |-> << >>,
                               saved |-> FALSE, sawOwn |-> FALSE]]
            /\ UNCHANGED ret
    /\ UNCHANGED <<storeVars, now, mu, successes, deliveries>>

\* buildContext's next store call; sawOwn notes whether the store then held a
\* transaction under the request's own id
HLookup(p) ==
    /\ procs[p].pc = "lookup"
    /\ LET k == Len(procs[p].reads) + 1 IN
       procs' = [procs EXCEPT
                    ![p].reads = Append(@, Lookup(procs[p].req, k)),
                    ![p].sawOwn = @ \/ Exists(procs[p].req.TransactionID),
                    ![p].pc = IF k = 6 THEN "save" ELSE "lookup"]
    /\ UNCHANGED <<storeVars, now, ret, mu, successes, deliveries>>

\* the score the handler has computed when it calls SaveTransaction
HScore(p) ==
    IF Overridden(procs[p].c) THEN ScoreWith(procs[p].req, procs[p].c)
    ELSE RulePhaseOn(CtxOf(procs[p].req, procs[p].reads))

\* the handler's record once its store calls for the context are over
HAfter(p, pc, saved) ==
    [pc |-> pc, kind |-> procs[p].kind, req |-> procs[p].req, saved |-> saved,
     sawOwn |-> procs[p].sawOwn]

\* mutant: the distinct-BIN count is taken again after the save
HSave_Recount(p) ==
    /\ procs[p].pc = "save"
    /\ LET tx == ScoredTx(procs[p].req, HScore(p)) IN
         /\ SaveEffect(tx)
         /\ IF SaveResult(tx) = ErrDuplicateTransaction
            THEN /\ procs' = [procs EXCEPT ![p] = HAfter(p, "done", procs[p].saved)]
                 /\ ret' = [op |-> "SubmitTransaction", status |-> 409]
            ELSE /\ procs' = [procs EXCEPT ![p].saved = TRUE, ![p].pc = "lookup",
                                           ![p].reads = SubSeq(@, 1, 5)]
                 /\ UNCHANGED ret
    /\ UNCHANGED <<blocklist, webhooks, now, mu, successes, deliveries>>

\* Recommend and SaveTransaction: a duplicate ends the request (409, or one
\* skipped element); a saved transaction goes on to NotifyAsync in
\* SubmitTransaction and ends the loop body in SeedData
HSave(p) ==
    /\ procs[p].pc = "save"
    /\ LET tx == ScoredTx(procs[p].req, HScore(p)) IN
         /\ SaveEffect(tx)
         /\ IF SaveResult(tx) = ErrDuplicateTransaction
            THEN /\ procs' = [procs EXCEPT ![p] = HAfter(p, "done", FALSE)]
                 /\ ret' = IF procs[p].kind = "submit"
                           THEN [op |-> "SubmitTransaction", status |-> 409]
                           ELSE [op |-> "SeedData", status |-> 200, loaded |-> 0,
                                 skipped |-> 1]
            ELSE IF procs[p].kind = "submit"
            THEN /\ procs' = [procs EXCEPT ![p] = HAfter(p, "notify", TRUE)]
                 /\ UNCHANGED ret
            ELSE /\ procs' = [procs EXCEPT ![p] = HAfter(p, "done", TRUE)]
                 /\ ret' = [op |-> "SeedData", status |-> 200, loaded |-> 1,
                            skipped |-> 0]
    /\ UNCHANGED <<blocklist, webhooks, now, mu, successes, deliveries>>

\* SubmitTransaction's last calls: NotifyAsync lists the webhooks and starts the
\* deliveries, then the response is written
HNotify(p) ==
    /\ procs[p].pc = "notify"
    /\ NotifyAsync(transactions[procs[p].req.TransactionID])
    /\ procs' = [procs EXCEPT ![p].pc = "done"]
    /\ ret' = [op |-> "SubmitTransaction", status |-> 201]
    /\ UNCHANGED <<storeVars, now, mu, successes>>

\* a webhook stored inactive, whose threshold every score reaches
InactiveWebhook == [ID |-> "wh-1", Threshold |-> 10, Active |-> FALSE]

NextSubmit ==
    \/ \E p \in Writers : \E r \in HandlerReqs : HBegin(p, r.kind, r.req)
    \/ \E p \in Writers : HLookup(p)
    \/ \E p \in Writers : HSave(p)
    \/ \E p \in Writers : HNotify(p)
    \/ RegisterWebhook(TRUE, "http://a.com", 0)
    \/ DOMAIN webhooks = {} /\ SaveWebhook(InactiveWebhook)
    \/ \E id \in DOMAIN webhooks : Handler_DeleteWebhook(id)

SpecSubmit == Init /\ [][NextSubmit]_vars

----------------------------------------------------------------------------
(* Claims about concurrent submissions and webhook deliveries *)

\* the goroutines that have entered their handler
Entered == {p \in Writers : procs[p].pc # "idle"}

\* C11, the reads: a goroutine whose save succeeded made every store call of its
\* context while the store held nothing under its id
C11_NoOwnRecord == \A p \in Entered : procs[p].saved => ~procs[p].sawOwn

\* C11, the order: when a goroutine's SaveTransaction stores its record, its Score
\* is over (overridden, or all six calls made), and no history list it read holds a
\* record of its id
C11_SaveStep ==
    \A p \in Entered :
        (procs[p].pc = "save" /\ procs'[p].saved)
        => /\ ~Exists(procs[p].req.TransactionID)
           /\ Overridden(procs[p].c) \/ Len(procs[p].reads) = 6
           /\ \A k \in 1..5 : k <= Len(procs[p].reads) =>
                 \A i \in 1..Len(procs[p].reads[k]) :
                    procs[p].reads[k][i].TransactionID # procs[p].req.TransactionID

\* C11: in SubmitTransaction and in the seed loop, under every interleaving of
\* concurrent requests, the history and the distinct-BIN count Score reads never
\* contain the record the same request later saves: Score is over before that
\* request's SaveTransaction begins.
C11_ScoreBeforeSave == []C11_NoOwnRecord /\ [][C11_SaveStep]_vars

\* one request saved its record; a concurrent one with the same id read the store
\* after that save and was refused as a duplicate
C11_Witness ==
    \E p, q \in Entered :
        /\ procs[p].pc = "done" /\ procs[p].saved /\ procs[p].kind = "submit"
        /\ procs[q].pc = "done" /\ ~procs[q].saved /\ procs[q].sawOwn
        /\ procs[q].req.TransactionID = procs[p].req.TransactionID

\* C12: the context built for a request is a snapshot of one store state, even
\* while other requests are saved: every transaction of its 10-minute email window
\* is in its 24-hour email window.
C12_ContextIsSnapshot ==
    \A p \in Entered :
        (procs[p].pc = "save" /\ ~Overridden(procs[p].c))
        => \A i \in 1..Len(procs[p].reads[2]) :
              \E j \in 1..Len(procs[p].reads[1]) :
                 procs[p].reads[1][j] = procs[p].reads[2][i]

\* the webhooks a saved transaction qualifies for when NotifyAsync lists them
Qualifying(tx) ==
    {<<id, tx.TransactionID>> : id \in {w \in DOMAIN webhooks :
                                   webhooks[w].Active /\ tx.RiskScore >= webhooks[w].Threshold}}

\* C19, each step: deliveries start only in the NotifyAsync of a SubmitTransaction
\* whose save succeeded, one for each webhook then active whose threshold the
\* stored score reaches, and for no other
C19_Step ==
    LET notifying == {p \in Entered : procs[p].pc = "notify" /\ procs'[p].pc = "done"} IN
    /\ deliveries' # deliveries => notifying # {}
    /\ \A p \in notifying :
          LET new == Qualifying(transactions[procs[p].req.TransactionID]) IN
          /\ procs[p].kind = "submit" /\ procs[p].saved
          /\ DOMAIN deliveries' = DOMAIN deliveries \cup new
          /\ \A d \in DOMAIN deliveries' :
                deliveries'[d] = (IF d \in DOMAIN deliveries THEN deliveries[d] ELSE 0)
                                 + (IF d \in new THEN 1 ELSE 0)

\* C19, all along: a (webhook, transaction) pair has at most one delivery, and the
\* transaction is one a SubmitTransaction saved
C19_Once ==
    \A d \in DOMAIN deliveries :
        /\ deliveries[d] = 1
        /\ \E p \in Entered : /\ procs[p].pc = "done" /\ procs[p].kind = "submit"
                              /\ procs[p].saved /\ procs[p].req.TransactionID = d[2]
        /\ transactions[d[2]].RiskScore >= 80

\* C19: a delivery is started for a transaction exactly when SubmitTransaction saved
\* it, the webhook is registered and active when NotifyAsync lists the webhooks, and
\* the score reaches the webhook's threshold; a rejected submission (validation,
\* duplicate) and a seeded transaction start none, and a qualifying webhook gets one
\* delivery per saved transaction.
C19_DeliveryIffQualifies == []C19_Once /\ [][C19_Step]_vars

\* the fraud attempt was saved and delivered once to the registered webhook; the
\* other submission was saved below the threshold and started no delivery
C19_Witness ==
    /\ DOMAIN deliveries = {<<"wh-1", 1>>}
    /\ deliveries[<<"wh-1", 1>>] = 1
    /\ \A p \in Writers : procs[p].pc = "done" /\ procs[p].kind = "submit" /\ procs[p].saved
    /\ transactions[2].RiskScore < 80
    /\ "wh-1" \in DOMAIN webhooks /\ webhooks["wh-1"].Active

----------------------------------------------------------------------------
(* Claims about the rules *)

\* the velocity windows of a context, each with its length
VelocityWindows(ctx) ==
    {[name |-> "email_velocity_24h", txs |-> ctx.emailLast24h, length |-> 24 * Hour],
     [name |-> "email_velocity_10min", txs |-> ctx.emailLast10m, length |-> 10 * Minute],
     [name |-> "ip_velocity_1h", txs |-> ctx.ipLast1h, length |-> 1 * Hour],
     [name |-> "device_velocity_30min", txs |-> ctx.deviceLast30m, length |-> 30 * Minute]}

\* C21: every stored transaction a velocity rule counts for a request stamped T
\* lies in the rule's window ending at T: at or after T minus the window's length,
\* and not later than T.
C21_WindowsEndAtRequest ==
    \A req \in ProbeReqs : \A w \in VelocityWindows(buildContext(req)) :
        \A i \in 1..Len(w.txs) :
            /\ w.txs[i].Timestamp >= req.Timestamp - w.length
            /\ w.txs[i].Timestamp <= req.Timestamp

----------------------------------------------------------------------------
(* Burst specification: transactions submitted in timestamp order from one IP *)
(* address by two customers, two or forty-five minutes after the previous one *)

\* the latest timestamp stored, T0 less two minutes when nothing is stored
LastStamp ==
    LET f[k \in 0..Cardinality(DOMAIN transactions)] ==
            IF k = 0 THEN T0 - 2 * Minute
            ELSE IF transactions[k].Timestamp > f[k - 1] THEN transactions[k].Timestamp
                 ELSE f[k - 1]
    IN f[Cardinality(DOMAIN transactions)]

\* the next request of a burst: the next identifier, the customer's email and device
BurstReq(email, gap) ==
    [baseReq(Cardinality(DOMAIN transactions) + 1, email, "1.1.1.1", "453211",
             LastStamp + gap, 50, GeoHome, 30 * Day)
        EXCEPT !.DeviceFingerprint = DeviceOf(email)]

\* what follows in a burst: either customer two minutes later, or the first
\* customer three quarters of an hour later
BurstReqs ==
    {BurstReq("a@a.com", 2 * Minute), BurstReq("b@b.com", 2 * Minute),
     BurstReq("a@a.com", 45 * Minute)}

NextBurst ==
    /\ Cardinality(DOMAIN transactions) < MaxBurst
    /\ \E req \in BurstReqs : SubmitTransaction(TRUE, req)

SpecBurst == Init /\ [][NextBurst]_vars

\* the transactions stored before transaction id that share its entity and are
\* stamped at or after its timestamp less length: what the rule's lookup returned
\* when transaction id was scored (identifiers are given in the order of saving)
Prior(id, type, length) ==
    {j \in DOMAIN transactions :
        /\ j < id
        /\ EntityValue(transactions[j], type) = EntityValue(transactions[id], type)
        /\ transactions[j].Timestamp >= transactions[id].Timestamp - length}

\* the deltas of the factors of a name among a transaction's factors
DeltasOf(tx, name) ==
    LET fs == SelectSeq(tx.Factors, LAMBDA f : f.Name = name)
    IN [k \in 1..Len(fs) |-> fs[k].ScoreDelta]

Min(a, b) == IF a < b THEN a ELSE b

\* a velocity factor of a stored transaction: present once, with the capped delta,
\* exactly when n reaches the trigger
VelocityAsClaimed(id, name, n, trigger, step, cap) ==
    DeltasOf(transactions[id], name) =
        IF n >= trigger THEN << Min(step * n, cap) >> ELSE << >>

\* C22: with n the number of transactions stored before the request that its rule's
\* lookup returns (same entity, stamped at or after the request's timestamp less the
\* window's length; the request itself is not among them), email_velocity_24h is
\* present iff n >= 2 with delta min(5n, 25), email_velocity_10min iff n >= 2 with
\* min(10n, 30), ip_velocity_1h iff n >= 3 with min(8n, 30), device_velocity_30min
\* iff n >= 2 with min(12n, 30); the eighth of eight same-email transactions two
\* minutes apart carries email_velocity_10min with delta 30.
C22_VelocityFactors ==
    \A id \in DOMAIN transactions :
        /\ VelocityAsClaimed(id, "email_velocity_24h",
                             Cardinality(Prior(id, EntityEmail, 24 * Hour)), 2, 5, 25)
        /\ VelocityAsClaimed(id, "email_velocity_10min",
                             Cardinality(Prior(id, EntityEmail, 10 * Minute)), 2, 10, 30)
        /\ VelocityAsClaimed(id, "ip_velocity_1h",
                             Cardinality(Prior(id, EntityIP, 1 * Hour)), 3, 8, 30)
        /\ VelocityAsClaimed(id, "device_velocity_30min",
                             Cardinality(Prior(id, EntityDevice, 30 * Minute)), 2, 12, 30)
        /\ (/\ id = 8
            /\ \A j \in 1..8 : /\ transactions[j].UserEmail = transactions[8].UserEmail
                               /\ transactions[j].Timestamp = T0 + 2 * (j - 1) * Minute)
           => DeltasOf(transactions[id], "email_velocity_10min") = << 30 >>

\* eight transactions of one email were submitted two minutes apart: the eighth
\* has five predecessors in its ten minutes and carries the capped delta 30, the
\* second has one and carries no velocity factor
C22_Witness ==
    /\ Cardinality(DOMAIN transactions) = 8
    /\ \A j \in 1..8 : /\ transactions[j].UserEmail = "a@a.com"
                       /\ transactions[j].Timestamp = T0 + 2 * (j - 1) * Minute
    /\ Cardinality(Prior(8, EntityEmail, 10 * Minute)) = 5
    /\ DeltasOf(transactions[8], "email_velocity_10min") = << 30 >>
    /\ DeltasOf(transactions[2], "email_velocity_10min") = << >>
    /\ ret = [op |-> "SubmitTransaction", status |-> 201]

----------------------------------------------------------------------------
(* Card specification: one address paying with up to four card prefixes *)

\* the card prefixes seen at the addresses: those of BINs and a fourth one
CardBINs == BINs \cup {"411111"}

\* New(), with the BIN index ready for the four prefixes
InitCards ==
    /\ transactions = << >>
    /\ txByEmail = [e \in Emails |-> << >>]
    /\ txByIP = [i \in IPs |-> << >>]
    /\ txByDevice = [d \in Devices |-> << >>]
    /\ txByBIN = [b \in CardBINs |-> << >>]
    /\ cardsByIP = [i \in IPs |-> {}]
    /\ blocklist = << >>
    /\ webhooks = << >>
    /\ now = T0
    /\ ret = [op |-> "New"]
    /\ mu = [writer |-> 0, readers |-> {}]
    /\ procs = [p \in 1..(NumWriters + 1) |-> [pc |-> "idle"]]
    /\ successes = << >>
    /\ deliveries = << >>

\* the history of the card-cycling test: transactions of another customer at the
\* address 1.1.1.1, two prefixes a month old and two of two hours ago, and one
\* transaction at the address 2.2.2.2
CardTxs ==
    LET id == Cardinality(DOMAIN transactions) + 1 IN
    {newTx(id, "b@b.com", "1.1.1.1", "dev2", bin,
           IF bin \in {"453211", "411111"} THEN T0 - 30 * Day ELSE T0 - 2 * Hour) :
        bin \in CardBINs}
    \cup {newTx(id, "b@b.com", "2.2.2.2", "dev2", "400000", T0 - 2 * Hour)}

\* the request of the card-cycling test: the base request from the address 1.1.1.1
CardReq == ReqHome(Cardinality(DOMAIN transactions) + 1)

\* a fraud attempt from the same address
CardFraud == ReqFraud(Cardinality(DOMAIN transactions) + 1)

NextCards ==
    \/ /\ Cardinality(DOMAIN transactions) < MaxCards
       /\ \/ \E tx \in CardTxs : SaveTransaction(tx)
          \/ SubmitTransaction(TRUE, CardReq)
          \/ SubmitTransaction(TRUE, CardFraud)
    \/ GetFraudReport

SpecCards == InitCards /\ [][NextCards]_vars

\* the distinct card prefixes among the transactions stored before transaction id
\* at its address, whatever their timestamps
BINsBefore(id) ==
    {transactions[j].CardBIN :
        j \in {k \in DOMAIN transactions :
                  k < id /\ transactions[k].IPAddress = transactions[id].IPAddress}}

\* C23: card_cycling_ip is among the factors of a scored transaction exactly when at
\* least three distinct card prefixes were stored for its address before it was
\* scored (its own prefix counts only if it was stored already), with delta
\* min(8 * count, 30), so at least 24, whatever the age of the stored transactions.
C23_CardCycling ==
    \A id \in DOMAIN transactions :
        transactions[id].RiskLevel # "" =>
            LET count == Cardinality(BINsBefore(id)) IN
            /\ DeltasOf(transactions[id], "card_cycling_ip") =
                   IF count >= 3 THEN << Min(8 * count, 30) >> ELSE << >>
            /\ \A k \in 1..Len(DeltasOf(transactions[id], "card_cycling_ip")) :
                   DeltasOf(transactions[id], "card_cycling_ip")[k] >= 24

\* four prefixes were stored for the address, two of them a month ago, and the
\* request scored after them carries the capped delta; an earlier request with a
\* new prefix of its own and two stored ones carries none
C23_Witness ==
    /\ Cardinality(DOMAIN transactions) = 5
    /\ BINsBefore(5) = CardBINs
    /\ DeltasOf(transactions[5], "card_cycling_ip") = << 30 >>
    /\ \E id \in DOMAIN transactions :
          /\ transactions[id].RiskLevel # ""
          /\ Cardinality(BINsBefore(id)) = 2
          /\ transactions[id].CardBIN \notin BINsBefore(id)
          /\ DeltasOf(transactions[id], "card_cycling_ip") = << >>

----------------------------------------------------------------------------
(* Claims about the purchase-behaviour rule *)

\* the amounts asked about after a burst: around 50, and around three, five and ten
\* times 50
ProbeAmounts == {30, 50, 51, 149, 150, 249, 250, 499, 500, 600}

\* the requests asked about after a burst: either customer, two minutes or
\* twenty-five hours after the last stored transaction, with each of ProbeAmounts
BurstProbes == {BurstReq(email, gap) : email \in Emails, gap \in {2 * Minute, 25 * Hour}}

\* the factors of the purchase-behaviour rule among a sequence of factors
PurchaseFactors(factors) ==
    SelectSeq(factors, LAMBDA f : f.Name \in {"first_transaction", "amount_anomaly_extreme",
                                              "amount_anomaly_high", "amount_anomaly_medium"})

\* the sum of the amounts of the stored transactions with the given identifiers
AmountOver(ids) ==
    LET f[k \in 0..Cardinality(DOMAIN transactions)] ==
            IF k = 0 THEN 0
            ELSE f[k - 1] + (IF k \in ids THEN transactions[k].Amount ELSE 0)
    IN f[Cardinality(DOMAIN transactions)]

\* the stored transactions of an email stamped at or after an instant
EmailSince(email, since) ==
    {j \in DOMAIN transactions :
        transactions[j].UserEmail = email /\ transactions[j].Timestamp >= since}

\* what the rule is claimed to return for an amount and the number n and total of
\* the prior transactions of the email's 24 hours; amount >= k * mean is
\* amount * n >= k * total
PurchaseAsClaimed(amount, n, total) ==
       IF n = 0 THEN << factor("first_transaction", IF amount > 50 THEN 15 ELSE 5) >>
       ELSE IF amount * n >= 10 * total THEN << factor("amount_anomaly_extreme", 30) >>
       ELSE IF amount * n >= 5 * total THEN << factor("amount_anomaly_high", 20) >>
       ELSE IF amount * n >= 3 * total THEN << factor("amount_anomaly_medium", 10) >>
       ELSE << >>

----------------------------------------------------------------------------
(* Claims about the fraud report *)

\* the transactions of the report's window, read from the primary map
WindowTxs == {transactions[id] : id \in {i \in DOMAIN transactions :
                                            transactions[i].Timestamp >= now - 24 * Hour}}

\* whether the returned report lists a pattern of a type for an entity
Listed(type, entity) ==
    \E k \in DOMAIN ret.patterns :
        ret.patterns[k].Type = type /\ ret.patterns[k].Entity = entity

\* the band Recommend puts a score in
BandOf(tx) == Recommend(tx.RiskScore).riskLevel

\* C25: the report over the window's transactions lists ip_velocity for an address
\* exactly when at least 5 of them share it, email_velocity exactly when at least 5
\* share an email, card_cycling exactly when an address has at least 3 distinct card
\* prefixes, bin_concentration exactly when at least 5 share a prefix; the patterns
\* are in non-increasing order of Count; the low, medium and high counts are those
\* of Recommend's bands and add up to the number of transactions.
C25_FraudReport ==
    ret.op = "GetFraudReport" =>
        /\ \A ip \in IPs :
              /\ Listed("ip_velocity", ip)
                    <=> Cardinality({tx \in WindowTxs : tx.IPAddress = ip}) >= 5
              /\ Listed("card_cycling", ip)
                    <=> Cardinality({tx.CardBIN :
                                        tx \in {t \in WindowTxs : t.IPAddress = ip}}) >= 3
        /\ \A email \in Emails :
              Listed("email_velocity", email)
                 <=> Cardinality({tx \in WindowTxs : tx.UserEmail = email}) >= 5
        /\ \A bin \in CardBINs :
              Listed("bin_concentration", bin)
                 <=> Cardinality({tx \in WindowTxs : tx.CardBIN = bin}) >= 5
        /\ \A i, j \in DOMAIN ret.patterns :
              i < j => ret.patterns[i].Count >= ret.patterns[j].Count
        /\ ret.summary.low = Cardinality({tx \in WindowTxs : BandOf(tx) = RiskLow})
        /\ ret.summary.medium = Cardinality({tx \in WindowTxs : BandOf(tx) = RiskMedium})
        /\ ret.summary.high = Cardinality({tx \in WindowTxs : BandOf(tx) = RiskHigh})
        /\ ret.summary.low + ret.summary.medium + ret.summary.high
              = Cardinality(WindowTxs)

\* a report over five transactions of the window from one address with three card
\* prefixes, one of them declined and one in review: ip_velocity with count 5 is
\* listed before card_cycling with count 3, and the bands are 3 low, 1 medium, 1 high
C25_Witness ==
    /\ ret.op = "GetFraudReport"
    /\ Cardinality(WindowTxs) = 5
    /\ [k \in DOMAIN ret.patterns |-> <<ret.patterns[k].Type, ret.patterns[k].Count>>]
          = << <<"ip_velocity", 5>>, <<"card_cycling", 3>> >>
    /\ ret.summary.high = 1
    /\ ret.summary.medium = 1
    /\ ret.summary.low = 3

----------------------------------------------------------------------------
(* Claims about the blocklist's entries *)

\* a step that returned from DeleteBlocklistEntry
DeleteStep == ret' # ret /\ ret'.op = "DeleteBlocklistEntry"

\* the entries other than id that name the entity of the stored entry id and are
\* not expired for CheckBlocklist
SameEntity(id) ==
    {x \in DOMAIN blocklist \ {id} :
        /\ blocklist[x].Type = blocklist[id].Type
        /\ blocklist[x].Value = blocklist[id].Value
        /\ ~ExpiredForCheck(blocklist[x], now)}

\* after the step, neither CheckBlocklist nor Score's override finds the entity
Cleared(type, value) ==
    /\ \A c \in CheckBlocklist(type, value)' : ~c.hit
    /\ \A req \in BlockReqs : \A c \in checkLists(req)' :
          c.hit => ~(c.entry.Type = type /\ c.entry.Value = value)

\* Cleared for the entity of the stored entry id, and whether CheckBlocklist can
\* still hit for it after the step
ClearedOf(id) ==
    \A type \in EntityTypes : \A value \in EntityValues(type) :
        (blocklist[id].Type = type /\ blocklist[id].Value = value) => Cleared(type, value)

StillHit(id) ==
    \E type \in EntityTypes : \E value \in EntityValues(type) :
        /\ blocklist[id].Type = type /\ blocklist[id].Value = value
        /\ \E c \in CheckBlocklist(type, value)' : c.hit

\* C26 as stated: after any successful delete, CheckBlocklist for the entry's
\* (type, value) no longer hits and Score applies no override for that entity.
C26_DeleteClearsEntity ==
    [][(DeleteStep /\ ret'.ok) => ClearedOf(ret'.id)]_vars

\* C26, amended: DeleteBlocklistEntry(id) returns true exactly when id is stored,
\* removes that entry and no other, and changes nothing when it returns false; after
\* a successful delete CheckBlocklist no longer hits for the entry's (type, value)
\* and Score applies no override for it, unless another unexpired entry for the same
\* (type, value) is stored under a different id; SaveBlocklistEntry with a stored id
\* replaces that entry and adds none.
C26_DeleteAndReplace ==
    [][/\ DeleteStep =>
             /\ ret'.ok = (ret'.id \in DOMAIN blocklist)
             /\ blocklist' = [x \in DOMAIN blocklist \ {ret'.id} |-> blocklist[x]]
             /\ UNCHANGED <<txVars, webhooks>>
             /\ (ret'.ok /\ SameEntity(ret'.id) = {}) => ClearedOf(ret'.id)
             /\ (ret'.ok /\ SameEntity(ret'.id) # {}) => StillHit(ret'.id)
       /\ (ret'.op = "SaveBlocklistEntry" /\ blocklist' # blocklist) =>
             /\ DOMAIN blocklist' = DOMAIN blocklist \cup {ret'.id}
             /\ blocklist'[ret'.id].ID = ret'.id
             /\ \A x \in DOMAIN blocklist \ {ret'.id} : blocklist'[x] = blocklist[x]
             /\ UNCHANGED <<txVars, webhooks>>]_vars

\* an entry was deleted while a second entry stays stored
C26_Witness ==
    /\ ret.op = "DeleteBlocklistEntry"
    /\ ret.ok
    /\ ret.id \notin DOMAIN blocklist
    /\ blocklist # << >>

----------------------------------------------------------------------------
(* Fair specification of the store's goroutines *)

\* the steps a goroutine takes without waiting: they are always taken eventually
SaveRun(p) ==
    \/ SaveCheck(p) \/ SavePrimary(p) \/ SaveEmail(p) \/ SaveIP(p)
    \/ SaveDevice(p) \/ SaveBIN(p) \/ SaveCards(p) \/ SaveReturn(p)

ReadRun(p) == ReadIndex(p) \/ ReadBody(p) \/ ReadReturn(p)

\* a running goroutine keeps running, and the lock is fair: a goroutine that can
\* be granted the lock again and again is granted it
Fairness ==
    /\ \A p \in Writers : WF_vars(SaveRun(p)) /\ SF_vars(SaveLock(p))
    /\ WF_vars(ReadRun(Reader)) /\ SF_vars(ReadLock(Reader))

SpecConcFair == SpecConc /\ Fairness

\* the positions at which a goroutine is inside a call, and those at which it
\* holds the lock exclusively or shared
InCall(p) == procs[p].pc \notin {"idle", "done"}
HoldsLock(p) == procs[p].pc \in {"check", "primary", "email", "ip", "device", "bin",
                                 "cards", "return"}
HoldsRLock(p) == procs[p].pc \in {"index", "body", "runlock"}

\* the lock is held by exactly the goroutines between their one acquisition and
\* their return, the duplicate return included; a goroutine requesting the lock
\* does not hold it; a writer excludes every other holder
LockDiscipline ==
    /\ \A p \in Writers : (mu.writer = p) <=> HoldsLock(p)
    /\ mu.writer \in Writers \cup {0}
    /\ mu.readers = {p \in {Reader} : HoldsRLock(p)}
    /\ mu.writer # 0 => mu.readers = {}
    /\ \A p \in Writers \cup {Reader} :
          procs[p].pc \in {"lock", "rlock", "idle", "done"}
             => mu.writer # p /\ p \notin mu.readers

\* some goroutine can always take a step: no state is a deadlock
NoDeadlock ==
    \/ \E p \in Writers : ENABLED SaveLock(p) \/ ENABLED SaveRun(p)
    \/ ENABLED ReadLock(Reader) \/ ENABLED ReadRun(Reader)
    \/ \A p \in Writers \cup {Reader} : ~InCall(p)

----------------------------------------------------------------------------
(* Claims about expiry and about entries naming the same entity *)

\* the stored entries that name the same (type, value) as the stored entry id
Namesakes(id) ==
    {x \in DOMAIN blocklist : /\ blocklist[x].Type = blocklist[id].Type
                              /\ blocklist[x].Value = blocklist[id].Value}

\* C28: CheckBlocklist and ListBlocklistEntries agree on which entries are active:
\* for an entry that is the only one stored for its (type, value), CheckBlocklist
\* hits if and only if ListBlocklistEntries returns the entry, also at the instant
\* at which the current time equals its ExpiresAt.
C28_CheckAgreesWithList ==
    \A id \in DOMAIN blocklist :
        Namesakes(id) = {id} =>
            \A c \in CheckBlocklist(blocklist[id].Type, blocklist[id].Value) :
                c.hit <=> blocklist[id] \in ListBlocklistEntries

\* C29: Score is a function of the request, the store and the time: two calls with
\* the same request on the same store at the same instant return the same score
\* and factors, also when the store holds a block entry and an allow entry, both
\* unexpired, for the same (type, value) under different ids.
C29_ScoreIsDeterministic ==
    \A req \in BlockReqs : \A first, second \in Score(req) :
        first.score = second.score /\ first.factors = second.factors

----------------------------------------------------------------------------
(* Claims about concurrent first transactions *)

\* whether a stored transaction carries a factor of the given name
HasFactor(tx, name) == \E k \in 1..Len(tx.Factors) : tx.Factors[k].Name = name

\* C30: when requests with distinct ids, the same email and the same timestamp are
\* submitted through SubmitTransaction to a store with no history for that email
\* and no override, exactly one of them is stored with the factor
\* first_transaction, under every interleaving.
C30_OneFirstTransaction ==
    \A p, q \in Entered :
        (/\ p # q
         /\ procs[p].kind = "submit" /\ procs[q].kind = "submit"
         /\ procs[p].pc = "done" /\ procs[q].pc = "done"
         /\ procs[p].saved /\ procs[q].saved
         /\ procs[p].req.TransactionID # procs[q].req.TransactionID
         /\ procs[p].req.UserEmail = procs[q].req.UserEmail
         /\ procs[p].req.Timestamp = procs[q].req.Timestamp
         /\ blocklist = << >>
         /\ {id \in DOMAIN transactions :
                transactions[id].UserEmail = procs[p].req.UserEmail}
               = {procs[p].req.TransactionID, procs[q].req.TransactionID})
        => Cardinality({id \in {procs[p].req.TransactionID, procs[q].req.TransactionID} :
                           HasFactor(transactions[id], "first_transaction")}) = 1

====
